---------------------------- MODULE Spec2Model ----------------------------
(***************************************************************************)
(* NanoClaw supervisor: warm container pool (src/container-pool.ts),       *)
(* mailbox watcher and task store (index.ts, db.ts), scheduler loop        *)
(* (task-scheduler.ts), registry and session router (session-manager.ts).  *)
(*                                                                         *)
(* The supervisor is one Node.js process: every action below is one        *)
(* synchronous stretch of a handler, from an event (call, timer, stdio     *)
(* data, process exit) to the next await.                                  *)
(***************************************************************************)
EXTENDS Integers, Sequences, FiniteSets, TLC

(***************************************************************************)
(* Bounds of the model                                                     *)
(***************************************************************************)
MaxWorkers == 2
MaxCalls == 2
MaxTasks == 1
MaxTime == 1
MaxSent == 1
MaxMsgs == 2
MaxClock == 5
MaxRouted == 3
MaxLen == 3
MaxFiles == 2

(***************************************************************************)
(* Program constants                                                       *)
(***************************************************************************)
MAIN_FOLDER == "main"
CONTAINER_WARM_TIMEOUT_DEFAULT == 1800000
\* period of the pool's cleanup interval, in milliseconds
CLEANUP_INTERVAL_MS == 60000

ASSISTANT_NAME == "Nanomi"

\* chat ids seen by the supervisor, and the slug of each chat's title:
\* chat 1 is titled Main, chats 2 and 3 are both titled Family Chat
Chats == {1, 2, 3}
ChatSlug(c) == IF c = 1 THEN "main" ELSE "family-chat"

\* workspaces whose agents drop files, and which task files name
Folders == {"main", "family-chat"}
\* the pool keys every access by folder; workspaces share no pool state
PoolFolders == {"family-chat"}

WorkerIds == 1..MaxWorkers
CallIds == 1..MaxCalls
NoWorker == 0
NoCall == 0

VARIABLES
  \* ---- ContainerPool (src/container-pool.ts)
  warmTimeout,   \* CONTAINER_WARM_TIMEOUT as read from the environment
  containers,    \* this.containers : folder -> WarmContainer (NoWorker = absent)
  workers,       \* every WarmContainer object ever built, with its child process
  nextWorker,    \* next fresh WarmContainer identity
  calls,         \* the runContainer invocations in progress
  \* ---- registry and session router (session-manager.ts), chat platform
  registeredChats, \* keys of the registeredChats map
  topics,          \* rows of the topics table
  sent,            \* calls made to the chat platform API, in order
  \* ---- mailbox watcher (index.ts startIpcWatcher)
  ipcData,       \* sourceFolder and data of the file it read last
  exitTimers,    \* pending service_control timers
  exited,        \* process.exit was called
  \* ---- task store (db.ts) and scheduler loop (task-scheduler.ts)
  tasks,         \* rows of scheduled_tasks by id
  nextTaskId,    \* next fresh task id
  taskRunLogs,   \* rows of task_run_logs
  now,           \* the wall clock
  schedPc,       \* where the scheduler loop is suspended
  dueTasks,      \* the rest of the due list of the current tick
  curTask,       \* the row runTask was called with
  inFlight,      \* ids of the tasks whose runTask awaits its container, oldest first
  \* ---- message store (db.ts), debouncer (telegram-client.ts), dispatch (index.ts)
  messages,           \* rows of the messages table
  nextMessageId,      \* message_id the platform gives to the next inbound text
  messageBuffers,     \* messageBuffers : buffer key -> buffered messages
  debounceTimers,     \* debounceTimers : buffer key -> time the timer is due
  dispatches,         \* the dispatch-handler invocations so far, in order
  lastAgentTimestamp, \* lastAgentTimestamp : folder -> time of the last reply
  \* ---- slugify (config.ts) and the session router on titles
  slugInput,     \* the string slugify was called with
  slugOutput,    \* what it returned
  routed,        \* the router calls so far: key, titles and folder returned
  \* ---- checkTrigger (telegram-client.ts) on its own
  triggerInput,  \* the text, trigger configuration and folder it was called with
  triggerOutput, \* what it returned, <<>> before the call
  \* ---- mailbox directories (data/ipc) and the poll (index.ts processIpcFiles)
  ipcFiles,      \* the files agents have written, by name
  pollPc,        \* where processIpcFiles is suspended
  pollQueue,     \* the directories the running poll has still to list
  pollFiles,     \* the rest of the listing of the directory it is in
  pollTimers     \* the pending setTimeout(processIpcFiles) timers

poolVars == <<warmTimeout, containers, workers, nextWorker, calls>>
chatVars == <<registeredChats, topics, sent>>
ipcVars == <<ipcData, exitTimers, exited>>
taskVars == <<tasks, nextTaskId, taskRunLogs, now, schedPc, dueTasks, curTask, inFlight>>

dispatchVars == <<messages, nextMessageId, messageBuffers, debounceTimers,
                  dispatches, lastAgentTimestamp>>
textVars == <<slugInput, slugOutput, routed, triggerInput, triggerOutput>>

pollVars == <<ipcFiles, pollPc, pollQueue, pollFiles, pollTimers>>

vars == <<poolVars, chatVars, ipcVars, taskVars, dispatchVars, textVars, pollVars>>

(***************************************************************************)
(* ContainerPool                                                           *)
(***************************************************************************)
NoWorkerRec ==
  [folder |-> "", proc |-> "none", ready |-> FALSE, processing |-> FALSE,
   resolveMessage |-> NoCall, onClose |-> FALSE, lastActive |-> 0,
   announced |-> FALSE]

\* Date.now() as the pool reads it: for the pool one tick of the clock is one
\* period of the cleanup interval
DateNow == now * CLEANUP_INTERVAL_MS

\* a runContainer invocation: output is the status of the ContainerOutput it
\* resolved with, error tells which of the error messages it carries
FreeCall ==
  [pc |-> "free", folder |-> "", worker |-> NoWorker, output |-> "none", error |-> "none"]

PoolInit ==
  /\ warmTimeout \in {0, CONTAINER_WARM_TIMEOUT_DEFAULT}
  /\ containers = [f \in PoolFolders |-> NoWorker]
  /\ workers = [w \in WorkerIds |-> NoWorkerRec]
  /\ nextWorker = 1
  /\ calls = [c \in CallIds |-> FreeCall]

\* runContainer's test for a reusable warm container
WarmAvailableNoBusyCheck(existing) ==
  /\ existing /= NoWorker
  /\ workers[existing].ready

WarmAvailable(existing) ==
  /\ existing /= NoWorker
  /\ workers[existing].ready
  /\ ~workers[existing].processing

\* runContainer's test for a busy warm container; the mutant never finds one
WarmBusyNever(existing) == FALSE
WarmBusy(existing) ==
  /\ existing /= NoWorker
  /\ workers[existing].processing

\* sendToWarmContainer up to the returned promise: the container is marked
\* processing, the resolver is installed and the job is written to stdin.
SentTo(ws, w, c) ==
  [ws EXCEPT ![w].processing = TRUE, ![w].lastActive = DateNow,
             ![w].resolveMessage = c]

\* cleanupAndResolve of the call c in flight on container w
Cleaned(ws, w) ==
  [ws EXCEPT ![w].processing = FALSE, ![w].lastActive = DateNow,
             ![w].resolveMessage = NoCall]

Resolved(cs, c, out, err) ==
  [cs EXCEPT ![c].pc = "done", ![c].output = out, ![c].error = err]

\* container.process.kill('SIGTERM'); the mutant sends no signal
KilledNot(ws, w) == ws
Killed(ws, w) ==
  [ws EXCEPT ![w].proc = IF ws[w].proc = "running" THEN "killed" ELSE ws[w].proc,
             ![w].announced = FALSE]

\* runContainer, from the call to its first await; the invocation takes the
\* lowest free slot of calls
RunContainer(c, f) ==
  /\ ~exited
  /\ calls[c].pc = "free"
  /\ \A d \in CallIds : d < c => calls[d].pc /= "free"
  /\ LET existing == containers[f] IN
     IF warmTimeout <= 0
     THEN /\ calls' = [calls EXCEPT ![c] = [pc |-> "cold", folder |-> f,
                                            worker |-> NoWorker, output |-> "none",
                                            error |-> "none"]]
          /\ UNCHANGED <<containers, workers, nextWorker>>
     ELSE IF WarmAvailable(existing)
     THEN /\ workers' = SentTo(workers, existing, c)
          /\ calls' = [calls EXCEPT ![c] = [pc |-> "warm", folder |-> f,
                                            worker |-> existing, output |-> "none",
                                            error |-> "none"]]
          /\ UNCHANGED <<containers, nextWorker>>
     ELSE IF WarmBusy(existing)
     THEN /\ calls' = [calls EXCEPT ![c] = [pc |-> "cold", folder |-> f,
                                            worker |-> NoWorker, output |-> "none",
                                            error |-> "none"]]
          /\ UNCHANGED <<containers, workers, nextWorker>>
     ELSE \* spawnWarmContainer up to "await new Promise" (wait for READY)
          /\ nextWorker <= MaxWorkers
          /\ workers' = [workers EXCEPT ![nextWorker] =
                           [folder |-> f, proc |-> "running", ready |-> FALSE,
                            processing |-> FALSE, resolveMessage |-> NoCall,
                            onClose |-> FALSE, lastActive |-> DateNow,
                            announced |-> FALSE]]
          /\ nextWorker' = nextWorker + 1
          /\ calls' = [calls EXCEPT ![c] = [pc |-> "spawning", folder |-> f,
                                            worker |-> nextWorker, output |-> "none",
                                            error |-> "none"]]
          /\ UNCHANGED containers
  /\ UNCHANGED warmTimeout
  /\ UNCHANGED <<chatVars, ipcVars, taskVars, dispatchVars, textVars, pollVars>>

\* stderr handler: the worker prints the READY marker, after its start and
\* after each response (announced: it has printed the marker since then)
WorkerReady(w) ==
  /\ ~exited
  /\ workers[w].proc = "running"
  /\ ~workers[w].announced
  /\ workers' = [workers EXCEPT ![w].ready = TRUE, ![w].announced = TRUE]
  /\ UNCHANGED <<warmTimeout, containers, nextWorker, calls>>
  /\ UNCHANGED <<chatVars, ipcVars, taskVars, dispatchVars, textVars, pollVars>>

\* checkReady sees ready: spawnWarmContainer registers the exit handlers,
\* stores the container in the pool and returns; runContainer then calls
\* sendToWarmContainer on it (promise continuations, no event in between).
SpawnReady(c) ==
  /\ ~exited
  /\ calls[c].pc = "spawning"
  /\ LET w == calls[c].worker IN
     /\ workers[w].ready
     /\ containers' = [containers EXCEPT ![calls[c].folder] = w]
     /\ workers' = SentTo([workers EXCEPT ![w].onClose = TRUE], w, c)
     /\ calls' = [calls EXCEPT ![c].pc = "warm"]
  /\ UNCHANGED <<warmTimeout, nextWorker>>
  /\ UNCHANGED <<chatVars, ipcVars, taskVars, dispatchVars, textVars, pollVars>>

\* runContainer catches the rejection of spawnWarmContainer and calls
\* runColdContainer; the mutant hands the failure to the caller
SpawnFailedReturned(cs, c) ==
  [cs EXCEPT ![c].pc = "done", ![c].worker = NoWorker, ![c].output = "error",
             ![c].error = "spawn"]
SpawnFailed(cs, c) ==
  [cs EXCEPT ![c].pc = "cold", ![c].worker = NoWorker]

\* the 30 s readiness timer: kill, reject, and runContainer falls back to cold
SpawnTimeout(c) ==
  /\ ~exited
  /\ calls[c].pc = "spawning"
  /\ LET w == calls[c].worker IN
     /\ ~workers[w].ready
     /\ workers' = Killed(workers, w)
     /\ calls' = SpawnFailed(calls, c)
  /\ UNCHANGED <<warmTimeout, containers, nextWorker>>
  /\ UNCHANGED <<chatVars, ipcVars, taskVars, dispatchVars, textVars, pollVars>>

\* the child process reports 'error' (docker could not be started) while
\* spawnWarmContainer waits for the marker: the close and error listeners are
\* registered after the wait, so the event has no listener, the error is
\* thrown as an uncaught exception and the supervisor process ends
SpawnError(c) ==
  /\ ~exited
  /\ calls[c].pc = "spawning"
  /\ LET w == calls[c].worker IN
     /\ workers[w].proc = "running"
     /\ ~workers[w].ready
     /\ workers' = [workers EXCEPT ![w].proc = "exited"]
  /\ exited' = TRUE
  /\ UNCHANGED <<warmTimeout, containers, nextWorker, calls>>
  /\ UNCHANGED <<ipcData, exitTimers, chatVars, taskVars, dispatchVars, textVars, pollVars>>

\* what a worker writes between the output markers: JSON with status success
\* or error, or text that JSON.parse turns down
Replies == {"success", "error", "garbage"}

\* the ContainerOutput the stdout handler hands to the resolver
StatusOf(reply) == IF reply = "garbage" THEN "error" ELSE reply
ErrorOf(reply) ==
  CASE reply = "garbage" -> "parse"
    [] reply = "error" -> "agent"
    [] OTHER -> "none"

\* stdout handler: the worker, which takes its next input after it has
\* printed the READY marker, answers the job it was sent with a complete
\* marker-delimited response while a resolver is installed
WorkerOutput(w, reply) ==
  /\ ~exited
  /\ workers[w].proc = "running"
  /\ workers[w].announced
  /\ workers[w].resolveMessage /= NoCall
  /\ workers' = [Cleaned(workers, w) EXCEPT ![w].announced = FALSE]
  /\ calls' = Resolved(calls, workers[w].resolveMessage, StatusOf(reply), ErrorOf(reply))
  /\ UNCHANGED <<warmTimeout, containers, nextWorker>>
  /\ UNCHANGED <<chatVars, ipcVars, taskVars, dispatchVars, textVars, pollVars>>

\* this.containers.delete(folder); the mutant leaves the entry where it is
DeletedNot(cs, folder) == cs
Deleted(cs, folder) == [cs EXCEPT ![folder] = NoWorker]

\* the request deadline of sendToWarmContainer
WarmTimeout(c) ==
  /\ ~exited
  /\ calls[c].pc = "warm"
  /\ LET w == calls[c].worker IN
     /\ workers' = Cleaned(Killed(workers, w), w)
     /\ containers' = Deleted(containers, workers[w].folder)
     /\ calls' = Resolved(calls, c, "error", "timeout")
  /\ UNCHANGED <<warmTimeout, nextWorker>>
  /\ UNCHANGED <<chatVars, ipcVars, taskVars, dispatchVars, textVars, pollVars>>

\* the stdin write callback reports an error (the pipe of a process that
\* was signalled or has exited)
StdinWriteError(c) ==
  /\ ~exited
  /\ calls[c].pc = "warm"
  /\ LET w == calls[c].worker IN
     /\ workers[w].proc \in {"killed", "exited"}
     /\ workers' = Cleaned(workers, w)
     /\ calls' = Resolved(calls, c, "error", "write")
  /\ UNCHANGED <<warmTimeout, containers, nextWorker>>
  /\ UNCHANGED <<chatVars, ipcVars, taskVars, dispatchVars, textVars, pollVars>>

\* the child process ends (by itself, or after SIGTERM) and 'close' fires
ProcessClose(w) ==
  /\ ~exited
  /\ workers[w].proc \in {"running", "killed"}
  /\ IF workers[w].onClose
     THEN /\ LET c == workers[w].resolveMessage IN
             IF c /= NoCall
             THEN /\ workers' = [Cleaned(workers, w) EXCEPT ![w].proc = "exited", ![w].announced = FALSE]
                  /\ calls' = Resolved(calls, c, "error", "exit")
             ELSE /\ workers' = [workers EXCEPT ![w].proc = "exited", ![w].announced = FALSE]
                  /\ UNCHANGED calls
          /\ containers' = Deleted(containers, workers[w].folder)
     ELSE /\ workers' = [workers EXCEPT ![w].proc = "exited", ![w].announced = FALSE]
          /\ UNCHANGED <<calls, containers>>
  /\ UNCHANGED <<warmTimeout, nextWorker>>
  /\ UNCHANGED <<chatVars, ipcVars, taskVars, dispatchVars, textVars, pollVars>>

\* the cleanup interval: every pool entry that is not processing and has been
\* idle for longer than the warm timeout (the set S) is killed and removed
CleanupTimer(S) ==
  /\ ~exited
  /\ S /= {}
  /\ \A f \in S : containers[f] /= NoWorker /\ ~workers[containers[f]].processing
  /\ workers' = [w \in WorkerIds |->
                   IF \E f \in S : containers[f] = w
                   THEN Killed(workers, w)[w] ELSE workers[w]]
  /\ containers' = [f \in PoolFolders |-> IF f \in S THEN NoWorker ELSE containers[f]]
  /\ UNCHANGED <<warmTimeout, nextWorker, calls>>
  /\ UNCHANGED <<chatVars, ipcVars, taskVars, dispatchVars, textVars, pollVars>>

\* the test of the cleanup interval on one pool entry; the mutant leaves out
\* the test of the processing flag
IdleNoBusyCheck(container) ==
  DateNow - container.lastActive > warmTimeout
Idle(container) ==
  /\ ~container.processing
  /\ DateNow - container.lastActive > warmTimeout

\* the cleanup interval with the clock read: it fires one period after the
\* pool was built and then every period, and kills and removes every entry
\* that is idle
CleanupInterval ==
  /\ ~exited
  /\ now > 0
  /\ LET S == {f \in PoolFolders :
                 containers[f] /= NoWorker /\ Idle(workers[containers[f]])} IN
     /\ S /= {}
     /\ workers' = [w \in WorkerIds |->
                      IF \E f \in S : containers[f] = w
                      THEN Killed(workers, w)[w] ELSE workers[w]]
     /\ containers' = [f \in PoolFolders |-> IF f \in S THEN NoWorker ELSE containers[f]]
  /\ UNCHANGED <<warmTimeout, nextWorker, calls>>
  /\ UNCHANGED <<chatVars, ipcVars, taskVars, dispatchVars, textVars, pollVars>>

\* runColdContainer resolves (exit, timeout or spawn error)
ColdExit(c, out) ==
  /\ ~exited
  /\ calls[c].pc = "cold"
  /\ calls' = Resolved(calls, c, out, IF out = "error" THEN "cold" ELSE "none")
  /\ UNCHANGED <<warmTimeout, containers, workers, nextWorker>>
  /\ UNCHANGED <<chatVars, ipcVars, taskVars, dispatchVars, textVars, pollVars>>

\* the caller of runContainer takes the output
CallReturn(c) ==
  /\ ~exited
  /\ calls[c].pc = "done"
  /\ calls' = [calls EXCEPT ![c] = FreeCall]
  /\ UNCHANGED <<warmTimeout, containers, workers, nextWorker>>
  /\ UNCHANGED <<chatVars, ipcVars, taskVars, dispatchVars, textVars, pollVars>>

\* getStats
getStats ==
  [warmContainers |-> Cardinality({f \in PoolFolders : containers[f] /= NoWorker}),
   folders |-> {f \in PoolFolders : containers[f] /= NoWorker}]

PoolNext ==
  \/ \E c \in CallIds, f \in PoolFolders : RunContainer(c, f)
  \/ \E w \in WorkerIds : WorkerReady(w)
  \/ \E c \in CallIds : SpawnReady(c)
  \/ \E c \in CallIds : SpawnTimeout(c)
  \/ \E w \in WorkerIds, reply \in Replies : WorkerOutput(w, reply)
  \/ \E c \in CallIds : WarmTimeout(c)
  \/ \E c \in CallIds : StdinWriteError(c)
  \/ \E w \in WorkerIds : ProcessClose(w)
  \/ \E S \in SUBSET PoolFolders : CleanupTimer(S)
  \/ \E c \in CallIds, out \in {"success", "error"} : ColdExit(c, out)
  \/ \E c \in CallIds : CallReturn(c)

(***************************************************************************)
(* Registry and session router (session-manager.ts), topics table (db.ts)  *)
(***************************************************************************)
isMainFolder(folder) == folder = MAIN_FOLDER

\* isChatRegistered; the mutant takes every chat for registered
isChatRegisteredAnyChat(chatId) == chatId \in Chats
isChatRegistered(chatId) == chatId \in registeredChats

\* getTopic: the row of a (chat, topic) key, as a set of zero or one rows
getTopic(chatId, topicId) ==
  {r \in topics : r.chatId = chatId /\ r.topicId = topicId}

\* getTopicByFolder: rows with this folder
getTopicByFolder(folder) == {r \in topics : r.folder = folder}

\* generateFolderName: the base name, then base-1, base-2, ... until unused
RECURSIVE UniqueFolder(_, _)
UniqueFolder(baseName, counter) ==
  LET folder == IF counter = 0 THEN baseName
                ELSE baseName \o "-" \o ToString(counter)
  IN IF getTopicByFolder(folder) = {} THEN folder
     ELSE UniqueFolder(baseName, counter + 1)

generateFolderName(chatId) == UniqueFolder(ChatSlug(chatId), 0)

\* getSessionFolder for topic 0 of a chat: the topics table afterwards
getSessionFolder(chatId) ==
  IF getTopic(chatId, 0) /= {} THEN topics
  ELSE topics \cup {[chatId |-> chatId, topicId |-> 0,
                     folder |-> generateFolderName(chatId)]}

\* a workspace owns a chat when one of the chat's topics is bound to it
OwnsChat(folder, chatId) ==
  \E r \in topics : r.chatId = chatId /\ r.folder = folder

\* handleTextMessage as far as the registry and the router are concerned:
\* a text from an unregistered chat is ignored, otherwise the session folder
\* of its (chat, topic) is looked up or created
HandleTextMessage(chatId) ==
  /\ ~exited
  /\ isChatRegistered(chatId)
  /\ topics' = getSessionFolder(chatId)
  /\ UNCHANGED <<registeredChats, sent, ipcVars, taskVars, poolVars, dispatchVars, textVars, pollVars>>

(***************************************************************************)
(* Mailbox watcher (index.ts startIpcWatcher, processTaskIpc)              *)
(***************************************************************************)
NoFile == [sourceFolder |-> "", data |-> [type |-> "none"]]

\* the mailbox directory of a workspace exists once a container was mounted
\* for it, which takes a topic bound to the folder
HasIpcDir(folder) == getTopicByFolder(folder) /= {}

\* contents an agent can drop into messages/
MessageFiles ==
  [type : {"message"}, chatId : Chats, text : {"", "hi"}]
    \cup [type : {"reaction"}, chatId : Chats, messageId : {0, 1}, emoji : {"+"}]

\* contents an agent can drop into tasks/ that address the registry or the service
AdminFiles ==
  [type : {"register_chat"}, chatId : Chats, chatType : {"group"},
   chatTitle : {"Chat"}]
    \cup [type : {"service_control"}, action : {"restart", "rebuild"}]
    \cup [type : {"bogus"}]

\* authorization of a message action
MessageAuthorizedAnyRegistered(isMain, sourceFolder, chatId) ==
  isMain \/ isChatRegistered(chatId)

MessageAuthorized(isMain, sourceFolder, chatId) ==
  isMain \/ (isChatRegistered(chatId) /\ sourceFolder = MAIN_FOLDER)

\* authorization of a reaction action
ReactionAuthorized(isMain, sourceFolder, chatId) ==
  isMain \/ isChatRegistered(chatId)

\* processIpcFiles on one file of messages/: read, authorize, call the chat
\* platform.  The await of the platform call is followed by the removal of
\* the file only, so the file is one step; ipcData is the file read last.
ProcessMessageFile(sourceFolder, data) ==
  /\ ~exited
  /\ HasIpcDir(sourceFolder)
  /\ ipcData' = [sourceFolder |-> sourceFolder, data |-> data]
  /\ LET isMain == isMainFolder(sourceFolder) IN
     IF data.type = "message" /\ data.text /= ""
     THEN IF MessageAuthorized(isMain, sourceFolder, data.chatId)
          THEN /\ Len(sent) < MaxSent
               /\ sent' = Append(sent, [kind |-> "message", chatId |-> data.chatId,
                                        text |-> ASSISTANT_NAME \o ": " \o data.text])
          ELSE UNCHANGED sent
     ELSE IF data.type = "reaction" /\ data.messageId /= 0 /\ data.emoji /= ""
     THEN IF ReactionAuthorized(isMain, sourceFolder, data.chatId)
          THEN /\ Len(sent) < MaxSent
               /\ sent' = Append(sent, [kind |-> "reaction", chatId |-> data.chatId,
                                        text |-> data.emoji])
          ELSE UNCHANGED sent
     ELSE UNCHANGED sent
  /\ UNCHANGED <<registeredChats, topics, exitTimers, exited, taskVars, poolVars, dispatchVars, textVars, pollVars>>

(***************************************************************************)
(* Task store (db.ts)                                                      *)
(***************************************************************************)
\* SQL NULL in next_run; instants are counted from 0
Null == -1
\* a schedule_value that does not parse (cron expression, integer or date)
BadValue == -1

\* ids of the task store: the ids schedule_task hands out, and one more for
\* a task that is in the store when the supervisor starts
ScheduledIds == 1..MaxTasks
TaskIds == 1..(MaxTasks + 1)
NoTask == [status |-> "absent"]
NoCurTask == [id |-> 0]

\* CronExpressionParser.parse(value).next(): a valid expression is modelled
\* by its period p, firing at the multiples of p; next() is the first
\* occurrence strictly after the current instant
CronValid(value) == value \in {1}

CronNextNotStrict(value, t) == ((t + value - 1) \div value) * value

CronNext(value, t) == ((t \div value) + 1) * value

\* getTaskById
getTaskById(tbl, id) == IF id \in TaskIds THEN tbl[id] ELSE NoTask

\* createTask
createTask(tbl, id, row) == [tbl EXCEPT ![id] = row]

\* updateTask(id, {status})
updateTaskStatus(tbl, id, status) == [tbl EXCEPT ![id].status = status]

\* deleteTask: the task's run logs, then the task
deleteTaskLogs(logs, id) == {l \in logs : l.taskId /= id}
deleteTask(tbl, id) == [tbl EXCEPT ![id] = NoTask]

\* getDueTasks: the ids of the rows with status active and next_run <= now,
\* in the orders ORDER BY next_run allows
IsDueNoNullCheck(row, t) ==
  /\ row /= NoTask
  /\ row.status = "active"
  /\ row.nextRun <= t

IsDue(row, t) ==
  /\ row /= NoTask
  /\ row.status = "active"
  /\ row.nextRun /= Null
  /\ row.nextRun <= t

DueIds == {id \in TaskIds : IsDue(tasks[id], now)}

Orders(S) ==
  {q \in [1..Cardinality(S) -> S] : \A i, j \in 1..Cardinality(S) : i /= j => q[i] /= q[j]}

getDueTasks ==
  {q \in Orders(DueIds) :
     \A i, j \in 1..Cardinality(DueIds) :
       i < j => tasks[q[i]].nextRun <= tasks[q[j]].nextRun}

\* updateTaskAfterRun: one UPDATE, a no-op when the row is gone
updateTaskAfterRun(tbl, id, nextRun, lastResult) ==
  IF tbl[id] = NoTask THEN tbl
  ELSE [tbl EXCEPT ![id].nextRun = nextRun,
                   ![id].lastResult = lastResult,
                   ![id].status = IF nextRun = Null THEN "completed" ELSE @]

\* logTaskRun; the log is kept as the set of (task, status) pairs it holds
logTaskRun(logs, id, status) ==
  logs \cup {[taskId |-> id, status |-> status]}

(***************************************************************************)
(* processTaskIpc (index.ts)                                               *)
(***************************************************************************)
\* schedule_type and schedule_value of a file: values the validation
\* accepts, and values it rejects
ScheduleKinds == {<<"cron", 1>>, <<"interval", 1>>, <<"once", 0>>}
RejectedKinds == {<<"cron", BadValue>>, <<"interval", 0>>, <<"once", BadValue>>}

\* chats a task file names: chat 2 is registered when tasks are scheduled,
\* chat 3 is not
TaskChats == {2, 3}

\* the chat and the schedule a schedule_task file names: every kind of
\* schedule for chat 2, and a once task for chat 3
TaskTargets == ({2} \X ScheduleKinds) \cup ({3} \X {<<"once", 0>>})

\* contents an agent can drop into tasks/ that address the task store
TaskFiles ==
  {[type |-> "schedule_task", prompt |-> "p", folder |-> f, chatId |-> t[1],
    scheduleType |-> t[2][1], scheduleValue |-> t[2][2]] :
      f \in Folders, t \in TaskTargets}
    \cup [type : {"pause_task", "resume_task", "cancel_task"}, taskId : ScheduledIds]

\* contents an agent can drop into tasks/ that the validation of
\* schedule_task turns down
RejectedFiles ==
  {[type |-> "schedule_task", prompt |-> "p", folder |-> f, chatId |-> c,
    scheduleType |-> k[1], scheduleValue |-> k[2]] :
      f \in Folders, c \in TaskChats, k \in RejectedKinds}

\* task files as the agent's tools write them, with the fields the host does
\* not ask for: isMain and folder in pause_task, resume_task and cancel_task,
\* createdBy in schedule_task; an agent can write any value into them
PrivilegeFiles ==
  {[type |-> "schedule_task", prompt |-> "p", folder |-> f, chatId |-> 2,
    scheduleType |-> "interval", scheduleValue |-> 1, createdBy |-> g,
    isMain |-> m] :
      f \in Folders, g \in Folders, m \in BOOLEAN}
    \cup [type : {"pause_task", "resume_task", "cancel_task"}, taskId : ScheduledIds,
          folder : Folders, isMain : BOOLEAN]
    \cup [type : {"register_chat"}, chatId : {3}, chatType : {"group"},
          chatTitle : {"Chat"}, isMain : BOOLEAN]
    \cup [type : {"service_control"}, action : {"restart"}, isMain : BOOLEAN]

\* schedule_task: may this source schedule for the folder named in the file
ScheduleAuthorizedAnyFolder(isMain, sourceFolder, targetFolder) == TRUE

ScheduleAuthorized(isMain, sourceFolder, targetFolder) ==
  ~(~isMain /\ targetFolder /= sourceFolder)

\* schedule_task: validation of schedule_value per schedule_type
ScheduleValid(scheduleType, scheduleValue) ==
  CASE scheduleType = "cron" -> CronValid(scheduleValue)
    [] scheduleType = "interval" -> scheduleValue /= BadValue /\ ~(scheduleValue <= 0)
    [] scheduleType = "once" -> scheduleValue /= BadValue
    [] OTHER -> TRUE

\* schedule_task: the first next_run
FirstRun(scheduleType, scheduleValue) ==
  CASE scheduleType = "cron" -> CronNext(scheduleValue, now)
    [] scheduleType = "interval" -> now + scheduleValue
    [] scheduleType = "once" -> scheduleValue
    [] OTHER -> Null

\* pause_task, resume_task, cancel_task: may this source touch the task
TaskAuthorizedAnyTask(isMain, sourceFolder, task) == task /= NoTask

TaskAuthorized(isMain, sourceFolder, task) ==
  task /= NoTask /\ (isMain \/ task.folder = sourceFolder)

\* register_chat and service_control: main only
MainOnlyAnySource(isMain) == TRUE

MainOnly(isMain) == isMain

\* the privilege processIpcFiles hands to processTaskIpc: that of the
\* directory the file was found in; the mutant takes the file's word for it
SourceIsMainFromPayload(sourceFolder, data) == data.isMain
SourceIsMain(sourceFolder, data) == isMainFolder(sourceFolder)

\* processTaskIpc on the parsed file: what it does to the host
TaskIpcOutcome(sourceFolder, data) ==
  /\ LET isMain == SourceIsMain(sourceFolder, data)
     IN CASE data.type = "schedule_task" ->
               IF /\ data.prompt /= ""
                  /\ ScheduleAuthorized(isMain, sourceFolder, data.folder)
                  /\ ScheduleValid(data.scheduleType, data.scheduleValue)
               THEN /\ nextTaskId <= MaxTasks
                    /\ tasks' = createTask(tasks, nextTaskId,
                         [chatId |-> data.chatId, folder |-> data.folder,
                          scheduleType |-> data.scheduleType,
                          scheduleValue |-> data.scheduleValue,
                          nextRun |-> FirstRun(data.scheduleType, data.scheduleValue),
                          lastResult |-> "", status |-> "active"])
                    /\ nextTaskId' = nextTaskId + 1
                    /\ UNCHANGED <<taskRunLogs, registeredChats, exitTimers>>
               ELSE UNCHANGED <<tasks, nextTaskId, taskRunLogs, registeredChats, exitTimers>>
          [] data.type = "pause_task" ->
               /\ tasks' = IF TaskAuthorized(isMain, sourceFolder, getTaskById(tasks, data.taskId))
                           THEN updateTaskStatus(tasks, data.taskId, "paused")
                           ELSE tasks
               /\ UNCHANGED <<nextTaskId, taskRunLogs, registeredChats, exitTimers>>
          [] data.type = "resume_task" ->
               /\ tasks' = IF TaskAuthorized(isMain, sourceFolder, getTaskById(tasks, data.taskId))
                           THEN updateTaskStatus(tasks, data.taskId, "active")
                           ELSE tasks
               /\ UNCHANGED <<nextTaskId, taskRunLogs, registeredChats, exitTimers>>
          [] data.type = "cancel_task" ->
               /\ IF TaskAuthorized(isMain, sourceFolder, getTaskById(tasks, data.taskId))
                  THEN /\ tasks' = deleteTask(tasks, data.taskId)
                       /\ taskRunLogs' = deleteTaskLogs(taskRunLogs, data.taskId)
                  ELSE UNCHANGED <<tasks, taskRunLogs>>
               /\ UNCHANGED <<nextTaskId, registeredChats, exitTimers>>
          [] data.type = "register_chat" ->
               /\ registeredChats' = IF MainOnly(isMain)
                                     THEN registeredChats \cup {data.chatId}
                                     ELSE registeredChats
               /\ UNCHANGED <<tasks, nextTaskId, taskRunLogs, exitTimers>>
          [] data.type = "service_control" ->
               /\ exitTimers' = IF MainOnly(isMain)
                                THEN exitTimers \cup {data.action}
                                ELSE exitTimers
               /\ UNCHANGED <<tasks, nextTaskId, taskRunLogs, registeredChats>>
          [] OTHER ->
               UNCHANGED <<tasks, nextTaskId, taskRunLogs, registeredChats, exitTimers>>
  /\ UNCHANGED <<exited, topics, sent, now, schedPc, dueTasks, curTask, inFlight,
                 poolVars, dispatchVars, textVars, pollVars>>

\* processIpcFiles on one file of tasks/: read it and call processTaskIpc.
\* processTaskIpc first awaits the import of cron-parser and reads and
\* writes host state only after it, so the file is one step.
ProcessTaskIpc(sourceFolder, data) ==
  /\ ~exited
  /\ HasIpcDir(sourceFolder)
  /\ ipcData' = [sourceFolder |-> sourceFolder, data |-> data]
  /\ TaskIpcOutcome(sourceFolder, data)

\* the 1 s timer of service_control fires: restart exits; rebuild runs the
\* build and exits when it succeeded
ExitTimerFires(action, buildOk) ==
  /\ ~exited
  /\ action \in exitTimers
  /\ exitTimers' = exitTimers \ {action}
  /\ exited' = (action = "restart" \/ buildOk)
  /\ UNCHANGED <<ipcData, chatVars, taskVars, poolVars, dispatchVars, textVars, pollVars>>

(***************************************************************************)
(* Mailbox directories and the poll loop (index.ts startIpcWatcher,        *)
(* agent side ipc-mcp.ts writeIpcFile)                                     *)
(***************************************************************************)
\* the workspaces that have a mailbox under data/ipc, in the order readdir
\* lists them; a chat titled Errors has the workspace errors
IpcListing == <<"errors", "family-chat", "main">>
IpcDirs == <<"messages", "tasks">>
FileNames == 1..MaxFiles

\* what a file holds: an action of a known type, JSON of no known type, or
\* text that JSON.parse turns down
Contents == {"action", "unknown", "garbage"}

\* the files agents write: into either directory of main every content, for
\* the other workspaces a message (blocked for family-chat, never polled for
\* errors) and for family-chat a task action
IpcInputs ==
  ([folder : {"main"}, dir : {"messages", "tasks"}, content : Contents])
    \cup ([folder : {"family-chat", "errors"}, dir : {"messages"}, content : {"action"}])
    \cup ([folder : {"family-chat"}, dir : {"tasks"}, content : {"action"}])

\* ext tells where the file is: not written, <name>.json.tmp, <name>.json,
\* moved to data/ipc/errors, or unlinked
NoIpcFile ==
  [folder |-> "", dir |-> "", content |-> "", ext |-> "none", reads |-> 0, applied |-> 0]

\* writeIpcFile, writeFileSync of the temp file
WriteTemp(n, data) ==
  /\ ipcFiles[n].ext = "none"
  /\ \A m \in FileNames : m < n => ipcFiles[m].ext /= "none"
  /\ ipcFiles' = [ipcFiles EXCEPT ![n] =
                    [folder |-> data.folder, dir |-> data.dir, content |-> data.content,
                     ext |-> ".json.tmp", reads |-> 0, applied |-> 0]]
  /\ UNCHANGED <<pollPc, pollQueue, pollFiles, pollTimers>>
  /\ UNCHANGED <<chatVars, ipcVars, taskVars, poolVars, dispatchVars, textVars>>

\* writeIpcFile, renameSync to the final name
Rename(n) ==
  /\ ipcFiles[n].ext = ".json.tmp"
  /\ ipcFiles' = [ipcFiles EXCEPT ![n].ext = ".json"]
  /\ UNCHANGED <<pollPc, pollQueue, pollFiles, pollTimers>>
  /\ UNCHANGED <<chatVars, ipcVars, taskVars, poolVars, dispatchVars, textVars>>

\* readdirSync(ipcBaseDir) filtered to the directories other than errors
groupFolders == SelectSeq(IpcListing, LAMBDA f : f /= "errors")

\* the directories a poll visits, in order: messages and tasks of each folder
RECURSIVE DirsOf(_)
DirsOf(folders) ==
  IF folders = <<>> THEN <<>>
  ELSE <<[folder |-> Head(folders), dir |-> IpcDirs[1]],
         [folder |-> Head(folders), dir |-> IpcDirs[2]]>> \o DirsOf(Tail(folders))

\* readdirSync(dir).filter(f => f.endsWith('.json')), names in order
RECURSIVE ListFrom(_, _)
ListFrom(d, n) ==
  IF n > MaxFiles THEN <<>>
  ELSE (IF /\ ipcFiles[n].ext = ".json"
           /\ ipcFiles[n].folder = d.folder
           /\ ipcFiles[n].dir = d.dir
        THEN <<n>> ELSE <<>>) \o ListFrom(d, n + 1)

\* a poll timer fires: processIpcFiles lists the base directory
PollTimer ==
  /\ ~exited
  /\ pollTimers > 0
  /\ pollPc = "sleeping"
  /\ pollTimers' = pollTimers - 1
  /\ pollPc' = "dir"
  /\ pollQueue' = DirsOf(groupFolders)
  /\ UNCHANGED <<ipcFiles, pollFiles>>
  /\ UNCHANGED <<chatVars, ipcVars, taskVars, poolVars, dispatchVars, textVars>>

\* the poll lists the next directory, or has reached the end of
\* processIpcFiles and sets the timer of the next poll
NextDir ==
  /\ pollPc = "dir"
  /\ IF pollQueue /= <<>>
     THEN /\ pollFiles' = ListFrom(Head(pollQueue), 1)
          /\ pollQueue' = Tail(pollQueue)
          /\ pollPc' = "files"
          /\ UNCHANGED pollTimers
     ELSE /\ pollPc' = "sleeping"
          /\ pollTimers' = pollTimers + 1
          /\ UNCHANGED <<pollQueue, pollFiles>>
  /\ UNCHANGED ipcFiles
  /\ UNCHANGED <<chatVars, ipcVars, taskVars, poolVars, dispatchVars, textVars>>

\* the body of the for-loop over the listing up to its await or its end: the
\* file is read and parsed; a parse error moves it to errors/; an authorized
\* message makes the platform call and awaits it; a message that is blocked
\* or of no known type is unlinked; a task file awaits processTaskIpc
ProcessFile ==
  /\ pollPc = "files"
  /\ IF pollFiles = <<>>
     THEN /\ pollPc' = "dir"
          /\ UNCHANGED <<ipcFiles, pollFiles>>
     ELSE LET n == Head(pollFiles)
              file == ipcFiles[n] IN
          IF file.content = "garbage"
          THEN /\ ipcFiles' = [ipcFiles EXCEPT ![n].reads = @ + 1, ![n].ext = "errors"]
               /\ pollFiles' = Tail(pollFiles)
               /\ UNCHANGED pollPc
          ELSE IF file.dir = "messages"
          THEN IF file.content = "action" /\ isMainFolder(file.folder)
               THEN /\ ipcFiles' = [ipcFiles EXCEPT ![n].reads = @ + 1,
                                                    ![n].applied = @ + 1]
                    /\ pollPc' = "awaiting"
                    /\ UNCHANGED pollFiles
               ELSE /\ ipcFiles' = [ipcFiles EXCEPT ![n].reads = @ + 1,
                                                    ![n].ext = "unlinked"]
                    /\ pollFiles' = Tail(pollFiles)
                    /\ UNCHANGED pollPc
          ELSE /\ ipcFiles' = [ipcFiles EXCEPT ![n].reads = @ + 1]
               /\ pollPc' = "awaiting"
               /\ UNCHANGED pollFiles
  /\ UNCHANGED <<pollQueue, pollTimers>>
  /\ UNCHANGED <<chatVars, ipcVars, taskVars, poolVars, dispatchVars, textVars>>

\* the awaited call settles: when it resolved the file is unlinked, when it
\* rejected the file is moved to errors/; processTaskIpc acts after its
\* await, on an action of a known type
AwaitSettles(ok) ==
  /\ pollPc = "awaiting"
  /\ LET n == Head(pollFiles)
         file == ipcFiles[n]
         acted == file.dir = "tasks" /\ file.content = "action" /\ ok IN
     ipcFiles' = [ipcFiles EXCEPT
                    ![n].applied = IF acted THEN @ + 1 ELSE @,
                    ![n].ext = IF ok THEN "unlinked" ELSE "errors"]
  /\ pollFiles' = Tail(pollFiles)
  /\ pollPc' = "files"
  /\ UNCHANGED <<pollQueue, pollTimers>>
  /\ UNCHANGED <<chatVars, ipcVars, taskVars, poolVars, dispatchVars, textVars>>

(***************************************************************************)
(* Scheduler (task-scheduler.ts)                                           *)
(***************************************************************************)
\* the for-loop of the scheduler from the head of the remaining due list up
\* to its next await: a task that is gone or not active is skipped, a task of
\* an unregistered chat is logged as an error and left as it is, a task of a
\* registered chat is handed to a container and awaited
\* the re-check of the loop: the row is still there and active; the mutant
\* only looks whether the row is still there
StillActiveAnyStatus(currentTask) == currentTask /= NoTask
StillActive(currentTask) == currentTask /= NoTask /\ currentTask.status = "active"

RECURSIVE Drain(_, _, _)
Drain(due, tbl, logs) ==
  IF due = <<>>
  THEN [pc |-> "idle", due |-> <<>>, cur |-> NoCurTask, logs |-> logs]
  ELSE LET id == Head(due)
           currentTask == getTaskById(tbl, id)
       IN IF ~StillActive(currentTask)
          THEN Drain(Tail(due), tbl, logs)
          ELSE IF ~isChatRegistered(currentTask.chatId)
          THEN Drain(Tail(due), tbl, logTaskRun(logs, id, "error"))
          ELSE [pc |-> "running", due |-> Tail(due),
                cur |-> [id |-> id, task |-> currentTask], logs |-> logs]

\* the timer of the loop is pending: setTimeout(loop) is the last statement
\* of loop(), after the for-loop and its awaits; the mutant has a timer that
\* is pending whatever the loop does
LoopTimerPendingAlways == TRUE
LoopTimerPending == schedPc = "idle"

\* the runs in flight after the loop went on to r
Started(runs, r) == IF r.pc = "running" THEN Append(runs, r.cur.id) ELSE runs

\* the runs in flight after the oldest run of a task ended
RECURSIVE Ended(_, _)
Ended(runs, id) ==
  IF runs = <<>> THEN <<>>
  ELSE IF Head(runs) = id THEN Tail(runs)
  ELSE <<Head(runs)>> \o Ended(Tail(runs), id)

\* loop(): getDueTasks and the loop body up to the first await
SchedulerLoop ==
  /\ ~exited
  /\ LoopTimerPending
  /\ \E q \in getDueTasks :
       LET r == Drain(q, tasks, taskRunLogs)
       IN /\ schedPc' = r.pc
          /\ dueTasks' = r.due
          /\ curTask' = r.cur
          /\ taskRunLogs' = r.logs
          /\ inFlight' = Started(inFlight, r)
  /\ UNCHANGED <<tasks, nextTaskId, now, chatVars, ipcVars, poolVars, dispatchVars, textVars, pollVars>>

\* runTask after the container call: next_run of the awaited task
NextRunAfterCronOnly(task) ==
  CASE task.scheduleType = "cron" -> CronNext(task.scheduleValue, now)
    [] OTHER -> Null

NextRunAfter(task) ==
  CASE task.scheduleType = "cron" -> CronNext(task.scheduleValue, now)
    [] task.scheduleType = "interval" -> now + task.scheduleValue
    [] OTHER -> Null

\* runTask resumes with the container's outcome (a rejected call counts as
\* an error), logs the run, updates the row, and the loop goes on to its
\* next await.  The log row references the task: when the task was
\* cancelled meanwhile the insert either fails, which ends this round of
\* the loop, or succeeds, depending on whether the database enforces
\* foreign keys.
RunTaskDone(outcome, enforced) ==
  /\ ~exited
  /\ schedPc = "running"
  /\ LET id == curTask.id
         gone == tasks[id] = NoTask
     IN IF gone /\ enforced
        THEN /\ schedPc' = "idle"
             /\ dueTasks' = <<>>
             /\ curTask' = NoCurTask
             /\ inFlight' = Ended(inFlight, id)
             /\ UNCHANGED <<tasks, taskRunLogs>>
        ELSE LET logged == logTaskRun(taskRunLogs, id, outcome)
                 summary == IF outcome = "error" THEN "Error" ELSE "Completed"
                 updated == updateTaskAfterRun(tasks, id, NextRunAfter(curTask.task), summary)
                 r == Drain(dueTasks, updated, logged)
             IN /\ tasks' = updated
                /\ taskRunLogs' = r.logs
                /\ schedPc' = r.pc
                /\ dueTasks' = r.due
                /\ curTask' = r.cur
                /\ inFlight' = Started(Ended(inFlight, id), r)
  /\ UNCHANGED <<nextTaskId, now, chatVars, ipcVars, poolVars, dispatchVars, textVars, pollVars>>

\* the clock advances
Tick ==
  /\ now < MaxTime
  /\ now' = now + 1
  /\ UNCHANGED <<tasks, nextTaskId, taskRunLogs, schedPc, dueTasks, curTask, inFlight,
                 chatVars, ipcVars, poolVars, dispatchVars, textVars, pollVars>>

(***************************************************************************)
(* Strings: a string is the sequence of its characters                     *)
(***************************************************************************)
UpperCase == <<"A", "B", "C", "D", "E", "F", "G", "H", "I", "J", "K", "L", "M",
               "N", "O", "P", "Q", "R", "S", "T", "U", "V", "W", "X", "Y", "Z">>
LowerCase == <<"a", "b", "c", "d", "e", "f", "g", "h", "i", "j", "k", "l", "m",
               "n", "o", "p", "q", "r", "s", "t", "u", "v", "w", "x", "y", "z">>
Digits == <<"0", "1", "2", "3", "4", "5", "6", "7", "8", "9">>
WhiteSpace == {" ", "\t", "\n"}

Range(seq) == {seq[i] : i \in DOMAIN seq}

\* String.prototype.toLowerCase
Lower(c) ==
  IF c \in Range(UpperCase)
  THEN LowerCase[CHOOSE i \in DOMAIN UpperCase : UpperCase[i] = c]
  ELSE c
toLowerCase(str) == [i \in DOMAIN str |-> Lower(str[i])]

\* String.prototype.startsWith at a position
MatchesAt(str, i, pattern) ==
  /\ i + Len(pattern) - 1 <= Len(str)
  /\ SubSeq(str, i, i + Len(pattern) - 1) = pattern

\* String.prototype.includes
includes(str, pattern) == \E i \in 1..(Len(str) + 1) : MatchesAt(str, i, pattern)

\* String.prototype.trim
RECURSIVE TrimStart(_)
TrimStart(str) ==
  IF str /= <<>> /\ Head(str) \in WhiteSpace THEN TrimStart(Tail(str)) ELSE str
RECURSIVE TrimEnd(_)
TrimEnd(str) ==
  IF str /= <<>> /\ str[Len(str)] \in WhiteSpace
  THEN TrimEnd(SubSeq(str, 1, Len(str) - 1)) ELSE str
trim(str) == TrimEnd(TrimStart(str))

\* Array.prototype.join
RECURSIVE join(_, _)
join(strs, sep) ==
  IF strs = <<>> THEN <<>>
  ELSE IF Len(strs) = 1 THEN strs[1]
  ELSE strs[1] \o sep \o join(Tail(strs), sep)

(***************************************************************************)
(* Message store (db.ts)                                                   *)
(***************************************************************************)
\* the assistant name and the default mention pattern, as characters
AssistantName == <<"N", "a", "n", "o", "m", "i">>
MentionPattern == <<"@">> \o AssistantName

\* a row id is <<kind, number, time>>: <<"message", message_id, 0>> for a
\* text or a reply, <<"reaction", target message_id, Date.now()>> for a reaction
MessageRowId(messageId) == <<"message", messageId, 0>>
ReactionRowId(targetId, t) == <<"reaction", targetId, t>>

\* storeMessage: INSERT OR REPLACE on the key (chat_id, topic_id, id), the
\* timestamp is the time of the call
storeMessage(rows, id, chatId, topicId, content, type, isBot, t) ==
  {r \in rows : ~(r.chatId = chatId /\ r.topicId = topicId /\ r.id = id)}
    \cup {[id |-> id, chatId |-> chatId, topicId |-> topicId, content |-> content,
           type |-> type, isBot |-> isBot, timestamp |-> t]}

\* getMessage: the row with this key, as a set of zero or one rows
getMessage(chatId, topicId, id) ==
  {r \in messages : r.chatId = chatId /\ r.topicId = topicId /\ r.id = id}

\* content LIKE 'prefix%': SQLite compares ASCII letters without regard to case
Like(content, prefix) == MatchesAt(toLowerCase(content), 1, toLowerCase(prefix))

\* ORDER BY timestamp; rows of one timestamp come in the order of their ids
RECURSIVE OrderByTimestamp(_)
OrderByTimestamp(rows) ==
  IF rows = {} THEN <<>>
  ELSE LET first == CHOOSE r \in rows :
                      \A q \in rows :
                        \/ r.timestamp < q.timestamp
                        \/ r.timestamp = q.timestamp /\ r.id[2] <= q.id[2]
       IN <<first>> \o OrderByTimestamp(rows \ {first})

\* getMessagesSince: the WHERE clause
SinceFilter(r, chatId, topicId, sinceTimestamp, botName) ==
  /\ r.chatId = chatId /\ r.topicId = topicId
  /\ r.timestamp > sinceTimestamp
  /\ r.type = "text"
  /\ ~Like(r.content, botName \o <<":">>)

getMessagesSince(chatId, topicId, sinceTimestamp, botName) ==
  OrderByTimestamp({r \in messages :
                      SinceFilter(r, chatId, topicId, sinceTimestamp, botName)})

(***************************************************************************)
(* Chat events and debouncer (telegram-client.ts)                          *)
(***************************************************************************)
DEBOUNCE_MS == 2000
\* the debounce window in ticks of the clock, one tick being a second
DebounceTicks == DEBOUNCE_MS \div 1000

NoTimer == -1
SenderName == <<"U">>

\* the texts users send
TextMention ==
  <<"h", "e", "y", " ", "@", "N", "a", "n", "o", "m", "i", " ",
    "w", "h", "a", "t", "'", "s", " ", "u", "p">>
TextPlain == <<"h", "i">>
TextPrefixed ==
  <<"n", "a", "n", "o", "m", "i", ":", " ", "@", "N", "A", "N", "O", "M", "I">>
Texts == {TextMention, TextPlain, TextPrefixed}

\* the trigger configuration of the registry entry of a chat
defaultTrigger(chatId) ==
  [mode |-> IF chatId = 1 THEN "always" ELSE "mention",
   mentionPattern |-> <<>>]

\* the pattern of a trigger: mentionPattern || `@${ASSISTANT_NAME}`
PatternOf(trigger) ==
  IF trigger.mentionPattern /= <<>> THEN trigger.mentionPattern ELSE MentionPattern

\* checkTrigger; the mutant compares without lowering the case
checkTriggerExactCase(text, trigger, folder) ==
  IF isMainFolder(folder) THEN TRUE
  ELSE CASE trigger.mode = "always" -> TRUE
         [] trigger.mode = "disabled" -> FALSE
         [] OTHER -> includes(text, PatternOf(trigger))
checkTrigger(text, trigger, folder) ==
  IF isMainFolder(folder) THEN TRUE
  ELSE CASE trigger.mode = "always" -> TRUE
         [] trigger.mode = "disabled" -> FALSE
         [] OTHER -> includes(toLowerCase(text), toLowerCase(PatternOf(trigger)))

\* text.replace(regex, '') with the flags gi: every occurrence, left to right
RECURSIVE RemoveAll(_, _)
RemoveAll(text, pattern) ==
  IF text = <<>> THEN <<>>
  ELSE IF MatchesAt(toLowerCase(text), 1, toLowerCase(pattern))
  THEN RemoveAll(SubSeq(text, Len(pattern) + 1, Len(text)), pattern)
  ELSE <<Head(text)>> \o RemoveAll(Tail(text), pattern)

stripTrigger(text, trigger) ==
  IF trigger.mode /= "mention" THEN text
  ELSE trim(RemoveAll(text, PatternOf(trigger)))

\* the folder the router has bound to topic 0 of a chat
FolderOf(tbl, chatId) ==
  (CHOOSE r \in tbl : r.chatId = chatId /\ r.topicId = 0).folder

\* bufferMessage, the buffer: the mutant forgets what was buffered before
bufferMessageReplacing(buffers, key, msg) ==
  [buffers EXCEPT ![key] = <<msg>>]
bufferMessage(buffers, key, msg) ==
  [buffers EXCEPT ![key] = Append(@, msg)]

\* bufferMessage, the timer: clearTimeout of the old one, setTimeout of a new
armTimer(timers, key, t) == [timers EXCEPT ![key] = t + DebounceTicks]

\* posts and reactions the platform has delivered or accepted so far
Inbound == nextMessageId - 1 + Cardinality({r \in messages : r.type = "reaction"})

\* handleTextMessage: a text with the next message_id arrives in topic 0 of a chat
TextMessage(chatId, text) ==
  /\ ~exited
  /\ Inbound < MaxMsgs
  /\ nextMessageId' = nextMessageId + 1
  /\ IF ~isChatRegistered(chatId)
     THEN UNCHANGED <<topics, messages, messageBuffers, debounceTimers>>
     ELSE LET tbl == getSessionFolder(chatId)
              folder == FolderOf(tbl, chatId)
              trigger == defaultTrigger(chatId)
          IN /\ topics' = tbl
             /\ messages' = storeMessage(messages, MessageRowId(nextMessageId),
                                         chatId, 0, text, "text", FALSE, now)
             /\ IF checkTrigger(text, trigger, folder)
                THEN /\ messageBuffers' =
                          bufferMessage(messageBuffers, chatId,
                                        [messageId |-> nextMessageId, folder |-> folder,
                                         content |-> stripTrigger(text, trigger),
                                         timestamp |-> now])
                     /\ debounceTimers' = armTimer(debounceTimers, chatId, now)
                ELSE UNCHANGED <<messageBuffers, debounceTimers>>
  /\ UNCHANGED <<registeredChats, sent, dispatches, lastAgentTimestamp,
                 ipcVars, taskVars, poolVars, textVars, pollVars>>

\* messages.sort((a, b) => a.timestamp - b.timestamp): a stable sort
RECURSIVE InsertByTimestamp(_, _)
InsertByTimestamp(sorted, m) ==
  IF sorted = <<>> THEN <<m>>
  ELSE IF m.timestamp < Head(sorted).timestamp THEN <<m>> \o sorted
  ELSE <<Head(sorted)>> \o InsertByTimestamp(Tail(sorted), m)
RECURSIVE SortByTimestamp(_)
SortByTimestamp(msgs) ==
  IF msgs = <<>> THEN <<>>
  ELSE InsertByTimestamp(SortByTimestamp(SubSeq(msgs, 1, Len(msgs) - 1)),
                         msgs[Len(msgs)])

\* the combined content of a flush
Combined(msgs) ==
  join([i \in DOMAIN msgs |->
          (IF Len(msgs) > 1 THEN <<"[">> \o SenderName \o <<"]", ":", " ">> ELSE <<>>)
            \o msgs[i].content],
       <<"\n">>)

(***************************************************************************)
(* Dispatch (index.ts handleMessage, handleReaction)                       *)
(***************************************************************************)
escapeChar(c) ==
  CASE c = "&" -> <<"&", "a", "m", "p", ";">>
    [] c = "<" -> <<"&", "l", "t", ";">>
    [] c = ">" -> <<"&", "g", "t", ";">>
    [] c = "\"" -> <<"&", "q", "u", "o", "t", ";">>
    [] OTHER -> <<c>>
RECURSIVE escapeXml(_)
escapeXml(str) ==
  IF str = <<>> THEN <<>> ELSE escapeChar(Head(str)) \o escapeXml(Tail(str))

\* the <message> elements of the prompt
PromptLines(rows) ==
  [i \in DOMAIN rows |->
     [id |-> rows[i].id, timestamp |-> rows[i].timestamp,
      content |-> escapeXml(rows[i].content)]]

\* handleMessage up to the call of runAgent: the invocation it leaves behind
handleMessage(chatId, folder, content, batch) ==
  IF ~isChatRegistered(chatId)
  THEN [kind |-> "text", chatId |-> chatId, folder |-> folder, batch |-> batch,
        content |-> content, since |-> Null, prompt |-> <<>>, status |-> "dropped"]
  ELSE LET sinceTimestamp == lastAgentTimestamp[folder]
       IN [kind |-> "text", chatId |-> chatId, folder |-> folder, batch |-> batch,
           content |-> content, since |-> sinceTimestamp,
           prompt |-> PromptLines(getMessagesSince(chatId, 0, sinceTimestamp,
                                                   AssistantName)),
           status |-> "running"]

\* the debounce timer of a key fires: flushMessageBuffer, then handleMessage
\* up to its await of runAgent; a timer is armed only together with a
\* buffered message, so the buffer it finds is not empty
FlushMessageBuffer(key) ==
  /\ ~exited
  /\ debounceTimers[key] /= NoTimer
  /\ now >= debounceTimers[key]
  /\ LET msgs == SortByTimestamp(messageBuffers[key])
     IN /\ messageBuffers' = [messageBuffers EXCEPT ![key] = <<>>]
        /\ debounceTimers' = [debounceTimers EXCEPT ![key] = NoTimer]
        /\ dispatches' =
             Append(dispatches,
                    handleMessage(key, msgs[1].folder, Combined(msgs),
                                  [i \in DOMAIN msgs |-> msgs[i].messageId]))
  /\ UNCHANGED <<messages, nextMessageId, lastAgentTimestamp, chatVars,
                 ipcVars, taskVars, poolVars, textVars, pollVars>>

\* a reaction update arrives for topic 0 of a chat (telegram-client handleReaction),
\* then index.ts handleReaction up to its await of runAgent; Date.now() in the
\* row id tells two reactions to one message apart, so there is one per tick
ReactionUpdate(chatId, action, targetId) ==
  /\ ~exited
  /\ Inbound < MaxMsgs
  /\ getMessage(chatId, 0, ReactionRowId(targetId, now)) = {}
  /\ IF ~isChatRegistered(chatId)
     THEN UNCHANGED <<topics, messages, dispatches>>
     ELSE LET tbl == getSessionFolder(chatId)
              folder == FolderOf(tbl, chatId)
              stored == storeMessage(messages, ReactionRowId(targetId, now),
                                     chatId, 0, <<"+">>, "reaction", FALSE, now)
              target == {r \in stored : r.chatId = chatId /\ r.topicId = 0
                                        /\ r.id = MessageRowId(targetId)}
          IN /\ topics' = tbl
             /\ messages' = stored
             /\ IF /\ action = "added"
                   /\ \/ \E r \in target : r.isBot
                      \/ defaultTrigger(chatId).mode = "always"
                THEN dispatches' =
                       Append(dispatches,
                              [kind |-> "reaction", chatId |-> chatId, folder |-> folder,
                               batch |-> <<>>, content |-> <<>>, since |-> Null,
                               prompt |-> <<>>, status |-> "running"])
                ELSE UNCHANGED dispatches
  /\ UNCHANGED <<registeredChats, sent, nextMessageId, messageBuffers, debounceTimers,
                 lastAgentTimestamp, ipcVars, taskVars, poolVars, textVars, pollVars>>

\* runAgent returns to handleMessage or handleReaction: with a response the
\* time of the reply is recorded and the reply goes to the chat platform
AgentReturns(d, response) ==
  /\ ~exited
  /\ d \in DOMAIN dispatches
  /\ dispatches[d].status = "running"
  /\ IF response
     THEN /\ lastAgentTimestamp' =
               [lastAgentTimestamp EXCEPT ![dispatches[d].folder] = now]
          /\ dispatches' = [dispatches EXCEPT ![d].status = "replying"]
     ELSE /\ dispatches' = [dispatches EXCEPT ![d].status = "done"]
          /\ UNCHANGED lastAgentTimestamp
  /\ UNCHANGED <<messages, nextMessageId, messageBuffers, debounceTimers, chatVars,
                 ipcVars, taskVars, poolVars, textVars, pollVars>>

\* what runContainer hands to runAgent: a ContainerOutput with a status and a
\* result, or a rejection; a result is <<>> for null and <<text>> for a string
ContainerOutputs ==
  [status : {"success", "error", "thrown"},
   result : {<<>>, <<<<>>>>, <<<<"o", "k">>>>}]

\* runAgent, from the output of the container to what it returns; the mutant
\* does not look at the status
runAgentAnyStatus(output) ==
  IF output.status = "thrown" THEN <<>> ELSE output.result
runAgent(output) ==
  IF output.status = "thrown" THEN <<>>
  ELSE IF output.status = "error" THEN <<>>
  ELSE output.result

\* if (response): null and the empty string are falsy
Truthy(response) == response /= <<>> /\ response[1] /= <<>>

\* the container call of a dispatch ends: runAgent returns to the handler
RunAgentReturns(d, output) ==
  /\ d \in DOMAIN dispatches
  /\ AgentReturns(d, Truthy(runAgent(output)))

\* sendMessage fails: the platform turns the reply down, the handler rejects
ReplyFailed(d) ==
  /\ ~exited
  /\ d \in DOMAIN dispatches
  /\ dispatches[d].status = "replying"
  /\ dispatches' = [dispatches EXCEPT ![d].status = "failed"]
  /\ UNCHANGED <<messages, nextMessageId, messageBuffers, debounceTimers,
                 lastAgentTimestamp, chatVars, ipcVars, taskVars, poolVars, textVars, pollVars>>

\* sendMessage after the platform accepted the reply: the bot's message is stored
ReplySent(d) ==
  /\ ~exited
  /\ d \in DOMAIN dispatches
  /\ dispatches[d].status = "replying"
  /\ messages' = storeMessage(messages, MessageRowId(nextMessageId),
                              dispatches[d].chatId, 0,
                              AssistantName \o <<":", " ">> \o <<"o", "k">>,
                              "agent_response", TRUE, now)
  /\ nextMessageId' = nextMessageId + 1
  /\ dispatches' = [dispatches EXCEPT ![d].status = "done"]
  /\ UNCHANGED <<messageBuffers, debounceTimers, lastAgentTimestamp, chatVars,
                 ipcVars, taskVars, poolVars, textVars, pollVars>>

\* unregisterChat
UnregisterChat(chatId) ==
  /\ ~exited
  /\ isChatRegistered(chatId)
  /\ registeredChats' = registeredChats \ {chatId}
  /\ UNCHANGED <<topics, sent, dispatchVars, ipcVars, taskVars, poolVars, textVars, pollVars>>

\* SIGINT or SIGTERM: the shutdown handler of main; containerPool.shutdown
\* has no await of its own, so process.exit follows in the same turn
Shutdown ==
  /\ ~exited
  /\ workers' = [w \in WorkerIds |->
                   IF \E f \in PoolFolders : containers[f] = w
                   THEN Killed(workers, w)[w] ELSE workers[w]]
  /\ containers' = [f \in PoolFolders |-> NoWorker]
  /\ exited' = TRUE
  /\ UNCHANGED <<warmTimeout, nextWorker, calls, ipcData, exitTimers, chatVars,
                 dispatchVars, taskVars, textVars, pollVars>>

\* the clock advances by one tick; a timer that is due runs first
ClockTick ==
  /\ ~exited
  /\ now < MaxClock
  /\ \A k \in Chats : debounceTimers[k] /= NoTimer => now < debounceTimers[k]
  /\ now' = now + 1
  /\ UNCHANGED <<tasks, nextTaskId, taskRunLogs, schedPc, dueTasks, curTask, inFlight,
                 chatVars, ipcVars, poolVars, dispatchVars, textVars, pollVars>>

(***************************************************************************)
(* slugify (config.ts) and the session router on chat titles and topic     *)
(* names (session-manager.ts getSessionFolder, generateFolderName)         *)
(***************************************************************************)
SLUG_LENGTH == 50

\* \w of a regular expression without the u flag
IsWordChar(c) ==
  c \in Range(LowerCase) \cup Range(UpperCase) \cup Range(Digits) \cup {"_"}

\* .replace(/[^\w\s-]/g, '')
RemoveSpecial(str) ==
  SelectSeq(str, LAMBDA c : IsWordChar(c) \/ c \in WhiteSpace \/ c = "-")

\* every maximal run of characters of a set becomes one hyphen
RECURSIVE ReplaceRuns(_, _, _)
ReplaceRuns(str, set, inRun) ==
  IF str = <<>> THEN <<>>
  ELSE IF Head(str) \in set
  THEN (IF inRun THEN <<>> ELSE <<"-">>) \o ReplaceRuns(Tail(str), set, TRUE)
  ELSE <<Head(str)>> \o ReplaceRuns(Tail(str), set, FALSE)

\* .replace(/\s+/g, '-')
SpacesToHyphens(str) == ReplaceRuns(str, WhiteSpace, FALSE)
\* .replace(/-+/g, '-')
CollapseHyphens(str) == ReplaceRuns(str, {"-"}, FALSE)

\* .replace(/^-|-$/g, ''): one hyphen at the start and one at the end
TrimHyphens(str) ==
  LET rest == IF str /= <<>> /\ Head(str) = "-" THEN Tail(str) ELSE str
  IN IF rest /= <<>> /\ rest[Len(rest)] = "-"
     THEN SubSeq(rest, 1, Len(rest) - 1) ELSE rest

\* .slice(0, n)
slice(str, n) == SubSeq(str, 1, IF Len(str) < n THEN Len(str) ELSE n)

slugify(str) ==
  slice(TrimHyphens(CollapseHyphens(SpacesToHyphens(RemoveSpecial(toLowerCase(str))))),
        SLUG_LENGTH)

\* a number in a template literal
RECURSIVE Decimal(_)
Decimal(n) ==
  IF n < 10 THEN <<Digits[n + 1]>>
  ELSE Decimal(n \div 10) \o <<Digits[(n % 10) + 1]>>

\* generateFolderName, the condition of the while loop; the mutant never
\* finds a name taken
FolderTakenNever(folder) == FALSE
FolderTaken(folder) == getTopicByFolder(folder) /= {}

\* generateFolderName, the while loop: folder, folder-1, folder-2, ... until
\* no topic has the name
RECURSIVE FirstFreeFolder(_, _)
FirstFreeFolder(baseName, counter) ==
  LET folder == IF counter = 0 THEN baseName
                ELSE baseName \o <<"-">> \o Decimal(counter)
  IN IF ~FolderTaken(folder) THEN folder
     ELSE FirstFreeFolder(baseName, counter + 1)

\* generateFolderName on the title of the chat and the name of the topic
FolderNameFor(chatTitle, topicName, chatId, topicId) ==
  LET chatSlug == slugify(chatTitle)
      topicSlug == IF topicId = 0 THEN <<>> ELSE slugify(topicName)
      joined == IF topicSlug /= <<>> THEN chatSlug \o <<"-">> \o topicSlug ELSE chatSlug
      baseName == IF joined = <<>>
                  THEN <<"c", "h", "a", "t", "-">> \o Decimal(chatId) ELSE joined
  IN FirstFreeFolder(baseName, 0)

\* the titles chats carry and the names topics carry
TitleDev == <<"D", "e", "v">>
TitleDevTeam == <<"d", "e", "v", "!">>
TitleLong == [i \in 1..SLUG_LENGTH |-> "a"]
TitleSymbols == <<"!", "?">>
Titles == {TitleDev, TitleDevTeam, TitleLong, TitleSymbols}
TopicGeneral == <<"G", "e", "n", "e", "r", "a", "l">>
TopicIds == {0, 1}

\* getSessionFolder(key, chatTitle, topicName): the existing row's folder, or
\* a fresh name bound to the key; the call and what it returned are kept
RouterCall(chatId, topicId, chatTitle, topicName) ==
  /\ Len(routed) < MaxRouted
  /\ LET existing == getTopic(chatId, topicId)
     IN IF existing /= {}
        THEN /\ routed' = Append(routed, [chatId |-> chatId, topicId |-> topicId,
                                          folder |-> (CHOOSE r \in existing : TRUE).folder])
             /\ UNCHANGED topics
        ELSE LET folder == FolderNameFor(chatTitle, topicName, chatId, topicId)
             IN /\ topics' = topics \cup {[chatId |-> chatId, topicId |-> topicId,
                                           folder |-> folder]}
                /\ routed' = Append(routed, [chatId |-> chatId, topicId |-> topicId,
                                             folder |-> folder])
  /\ UNCHANGED <<registeredChats, sent, slugInput, slugOutput, triggerInput,
                 triggerOutput, ipcVars, taskVars, poolVars, dispatchVars, pollVars>>

\* the strings slugify is tried on: every string of at most MaxLen characters
\* of the alphabet, alone and after a word that fills the slug up to two
\* characters before the cut
SlugAlphabet == {"a", "B", "1", "_", "-", " ", "!"}
Strings(n) == UNION {[1..k -> SlugAlphabet] : k \in 0..n}
SlugInputs ==
  {[i \in 1..p |-> "a"] \o str : p \in {0, SLUG_LENGTH - 2}, str \in Strings(MaxLen)}

\* slugOutput before slugify was called
NoSlug == <<"(not called)">>

\* slugify is called on the input
Slugify ==
  /\ slugOutput = NoSlug
  /\ slugOutput' = slugify(slugInput)
  /\ UNCHANGED <<slugInput, routed, triggerInput, triggerOutput, chatVars, ipcVars,
                 taskVars, poolVars, dispatchVars, pollVars>>

\* slugify is called on what it returned
SlugifyAgain ==
  /\ slugOutput /= NoSlug
  /\ slugOutput /= slugInput
  /\ slugInput' = slugOutput
  /\ slugOutput' = slugify(slugOutput)
  /\ UNCHANGED <<routed, triggerInput, triggerOutput, chatVars, ipcVars, taskVars,
                 poolVars, dispatchVars, pollVars>>

(***************************************************************************)
(* Specifications                                                          *)
(***************************************************************************)
\* the parts of the host a specification leaves at rest
NoPool ==
  /\ warmTimeout = 0
  /\ containers = [f \in PoolFolders |-> NoWorker]
  /\ workers = [w \in WorkerIds |-> NoWorkerRec]
  /\ nextWorker = 1
  /\ calls = [c \in CallIds |-> FreeCall]

\* no file in any mailbox; the first poll has run and set its timer
NoPoll ==
  /\ ipcFiles = [n \in FileNames |-> NoIpcFile]
  /\ pollPc = "sleeping"
  /\ pollQueue = <<>>
  /\ pollFiles = <<>>
  /\ pollTimers = 1

NoMailbox ==
  /\ sent = <<>>
  /\ ipcData = NoFile
  /\ exitTimers = {}
  /\ exited = FALSE
  /\ NoPoll

NoTasks ==
  /\ tasks = [id \in TaskIds |-> NoTask]
  /\ nextTaskId = 1
  /\ taskRunLogs = {}
  /\ now = 0
  /\ schedPc = "idle"
  /\ dueTasks = <<>>
  /\ curTask = NoCurTask
  /\ inFlight = <<>>

NoDispatch ==
  /\ messages = {}
  /\ nextMessageId = 1
  /\ messageBuffers = [k \in Chats |-> <<>>]
  /\ debounceTimers = [k \in Chats |-> NoTimer]
  /\ dispatches = <<>>
  /\ lastAgentTimestamp = [f \in Folders |-> Null]

NoTrigger ==
  /\ triggerInput = [text |-> <<>>, trigger |-> defaultTrigger(1), folder |-> MAIN_FOLDER]
  /\ triggerOutput = <<>>

NoText ==
  /\ slugInput = <<>>
  /\ slugOutput = NoSlug
  /\ routed = <<>>
  /\ NoTrigger

\* the pool on its own
InitPool ==
  /\ PoolInit
  /\ registeredChats = {1}
  /\ topics = {}
  /\ NoMailbox
  /\ NoTasks
  /\ NoDispatch
  /\ NoText

SpecPool == InitPool /\ [][PoolNext]_vars

\* the pool under callers that issue one request at a time: runContainer is
\* called again only after the call before it has returned
RunContainerInTurn(c, f) ==
  /\ \A d \in CallIds : calls[d].pc = "free"
  /\ RunContainer(c, f)

PoolInTurnNext ==
  \/ \E c \in CallIds, f \in PoolFolders : RunContainerInTurn(c, f)
  \/ \E w \in WorkerIds : WorkerReady(w)
  \/ \E c \in CallIds : SpawnReady(c)
  \/ \E c \in CallIds : SpawnTimeout(c)
  \/ \E w \in WorkerIds, reply \in Replies : WorkerOutput(w, reply)
  \/ \E c \in CallIds : WarmTimeout(c)
  \/ \E c \in CallIds : StdinWriteError(c)
  \/ \E w \in WorkerIds : ProcessClose(w)
  \/ \E S \in SUBSET PoolFolders : CleanupTimer(S)
  \/ \E c \in CallIds, out \in {"success", "error"} : ColdExit(c, out)
  \/ \E c \in CallIds : CallReturn(c)

SpecPoolInTurn == InitPool /\ [][PoolInTurnNext]_vars

\* the timers of the pool: the request deadline, the readiness timer and its
\* poll, and the deadline of a cold container
PoolTimers ==
  \/ \E c \in CallIds : WarmTimeout(c)
  \/ \E c \in CallIds : SpawnTimeout(c)
  \/ \E c \in CallIds : SpawnReady(c)
  \/ \E c \in CallIds : ColdExit(c, "error")

\* callers in turn, timers that fire, and workers that start
FairSpecPoolInTurn == SpecPoolInTurn /\ WF_vars(PoolTimers)

\* the same with workers that may fail to start
SpawnNext ==
  \/ PoolInTurnNext
  \/ \E c \in CallIds : SpawnError(c)

SpecSpawn == InitPool /\ [][SpawnNext]_vars
FairSpecSpawn == SpecSpawn /\ WF_vars(PoolTimers)

\* the pool with the clock running and the idle timeout set to one period of
\* the cleanup interval (CONTAINER_WARM_TIMEOUT=60000 in the environment)
InitReaper ==
  /\ warmTimeout = CLEANUP_INTERVAL_MS
  /\ containers = [f \in PoolFolders |-> NoWorker]
  /\ workers = [w \in WorkerIds |-> NoWorkerRec]
  /\ nextWorker = 1
  /\ calls = [c \in CallIds |-> FreeCall]
  /\ registeredChats = {1}
  /\ topics = {}
  /\ NoMailbox
  /\ NoTasks
  /\ NoDispatch
  /\ NoText

ReaperNext ==
  \/ \E c \in CallIds, f \in PoolFolders : RunContainerInTurn(c, f)
  \/ \E w \in WorkerIds : WorkerReady(w)
  \/ \E c \in CallIds : SpawnReady(c)
  \/ \E c \in CallIds : SpawnTimeout(c)
  \/ \E w \in WorkerIds, reply \in Replies : WorkerOutput(w, reply)
  \/ \E c \in CallIds : WarmTimeout(c)
  \/ \E c \in CallIds : StdinWriteError(c)
  \/ \E w \in WorkerIds : ProcessClose(w)
  \/ CleanupInterval
  \/ \E c \in CallIds, out \in {"success", "error"} : ColdExit(c, out)
  \/ \E c \in CallIds : CallReturn(c)
  \/ ClockTick

SpecReaper == InitReaper /\ [][ReaperNext]_vars

\* the mailbox directories, the agents that write into them and the poll
PollAction ==
  \/ PollTimer
  \/ NextDir
  \/ ProcessFile
  \/ \E ok \in BOOLEAN : AwaitSettles(ok)

PollNext ==
  \/ \E n \in FileNames, data \in IpcInputs : WriteTemp(n, data)
  \/ \E n \in FileNames : Rename(n)
  \/ PollAction

InitPoll ==
  /\ registeredChats = {1}
  /\ topics = {}
  /\ NoMailbox
  /\ NoTasks
  /\ NoPool
  /\ NoDispatch
  /\ NoText

SpecPoll == InitPoll /\ [][PollNext]_vars

\* timers fire and awaited calls settle
FairSpecPoll == SpecPoll /\ WF_vars(PollAction)

\* registry, router and mailbox: a fresh install with the main chat registered
InitMailbox ==
  /\ registeredChats = {1}
  /\ topics = {}
  /\ NoMailbox
  /\ NoTasks
  /\ NoPool
  /\ NoDispatch
  /\ NoText

MailboxNext ==
  \/ \E c \in Chats : HandleTextMessage(c)
  \/ \E f \in Folders, d \in MessageFiles : ProcessMessageFile(f, d)
  \/ \E f \in Folders, d \in AdminFiles \cup RejectedFiles : ProcessTaskIpc(f, d)
  \/ \E a \in {"restart", "rebuild"}, ok \in BOOLEAN : ExitTimerFires(a, ok)

SpecMailbox == InitMailbox /\ [][MailboxNext]_vars

\* task store, mailbox task files and scheduler: chats 1 and 2 are
\* registered and have their folders, chat 3 is not registered
InitTasks ==
  /\ registeredChats = {1, 2}
  /\ topics = {[chatId |-> c, topicId |-> 0, folder |-> ChatSlug(c)] : c \in {1, 2}}
  /\ NoMailbox
  /\ NoTasks
  /\ NoPool
  /\ NoDispatch
  /\ NoText

TasksNext ==
  \/ \E f \in Folders, d \in TaskFiles : ProcessTaskIpc(f, d)
  \/ SchedulerLoop
  \/ \E outcome \in {"success", "error"}, enforced \in BOOLEAN : RunTaskDone(outcome, enforced)
  \/ Tick

SpecTasks == InitTasks /\ [][TasksNext]_vars

\* the task mailbox with files that carry privilege fields
PrivilegeNext ==
  \E f \in Folders, d \in PrivilegeFiles : ProcessTaskIpc(f, d)

SpecPrivilege == InitTasks /\ [][PrivilegeNext]_vars

\* the scheduler over a store that holds several due tasks: every id has an
\* active task of workspace family-chat and chat 2, all of one kind of
\* schedule, due at the start; main pauses and cancels them
SeedRows ==
  {[chatId |-> 2, folder |-> "family-chat", scheduleType |-> k[1],
    scheduleValue |-> k[2], nextRun |-> 0, lastResult |-> "", status |-> "active"] :
      k \in ScheduleKinds}

InitTick ==
  /\ registeredChats = {1, 2}
  /\ topics = {[chatId |-> c, topicId |-> 0, folder |-> ChatSlug(c)] : c \in {1, 2}}
  /\ \E row \in SeedRows : tasks = [id \in TaskIds |-> row]
  /\ nextTaskId = MaxTasks + 2
  /\ taskRunLogs = {}
  /\ now = 0
  /\ schedPc = "idle"
  /\ dueTasks = <<>>
  /\ curTask = NoCurTask
  /\ inFlight = <<>>
  /\ NoMailbox
  /\ NoPool
  /\ NoDispatch
  /\ NoText

TickFiles == [type : {"pause_task", "cancel_task"}, taskId : TaskIds]

TickNext ==
  \/ \E d \in TickFiles : ProcessTaskIpc(MAIN_FOLDER, d)
  \/ SchedulerLoop
  \/ \E outcome \in {"success", "error"}, enforced \in BOOLEAN : RunTaskDone(outcome, enforced)
  \/ Tick

SpecTick == InitTick /\ [][TickNext]_vars

\* chat events: a fresh install with chats 1 and 2 registered, chat 3 is not
InitChat ==
  /\ registeredChats = {1, 2}
  /\ topics = {}
  /\ NoMailbox
  /\ NoTasks
  /\ NoPool
  /\ NoDispatch
  /\ NoText

\* the debouncer: texts, timers, flushes and the shutdown signal
DebounceNext ==
  \/ \E c \in Chats, text \in {TextMention, TextPlain} : TextMessage(c, text)
  \/ \E k \in Chats : FlushMessageBuffer(k)
  \/ \E c \in Chats : UnregisterChat(c)
  \/ Shutdown
  \/ ClockTick

SpecDebounce == InitChat /\ [][DebounceNext]_vars

\* text dispatch: the texts of chat 2, a chat in mention mode, with flushes,
\* prompts and replies
ChatNext ==
  \/ \E text \in Texts : TextMessage(2, text)
  \/ \E k \in Chats : FlushMessageBuffer(k)
  \/ \E d \in 1..MaxMsgs, r \in BOOLEAN : AgentReturns(d, r)
  \/ \E d \in 1..MaxMsgs : ReplySent(d)
  \/ ClockTick

SpecChat == InitChat /\ [][ChatNext]_vars

\* replies: texts of chat 1, a chat in mode always, the outputs of the
\* container and the platform taking or refusing the reply
ReplyNext ==
  \/ TextMessage(1, TextPlain)
  \/ \E k \in Chats : FlushMessageBuffer(k)
  \/ \E d \in 1..MaxMsgs, output \in ContainerOutputs : RunAgentReturns(d, output)
  \/ \E d \in 1..MaxMsgs : ReplySent(d)
  \/ \E d \in 1..MaxMsgs : ReplyFailed(d)
  \/ ClockTick

SpecReply == InitChat /\ [][ReplyNext]_vars

\* the registry in front of the chat events: texts and reactions of all
\* chats, flushes, and chats leaving the registry
RegistryNext ==
  \/ \E c \in Chats : TextMessage(c, TextMention)
  \/ \E c \in Chats, a \in {"added", "removed"}, m \in 1..MaxMsgs : ReactionUpdate(c, a, m)
  \/ \E k \in Chats : FlushMessageBuffer(k)
  \/ \E c \in Chats : UnregisterChat(c)
  \/ ClockTick

SpecRegistry == InitChat /\ [][RegistryNext]_vars

\* the session router: chats 1 and 2 are registered, their messages and
\* reactions come with any of the titles, in topic 0 or topic 1
RouterNext ==
  \E c \in {1, 2}, t \in TopicIds, title \in Titles : RouterCall(c, t, title, TopicGeneral)

SpecRouter == InitChat /\ [][RouterNext]_vars

\* the session router when chats carry the titles "Global" and "Main": the
\* title of a chat is whatever its members set it to
TitleGlobal == <<"G", "l", "o", "b", "a", "l">>
TitleMain == <<"M", "a", "i", "n">>

ReservedNext ==
  \E c \in {1, 2}, t \in TopicIds, title \in {TitleDev, TitleGlobal, TitleMain} :
    RouterCall(c, t, title, TopicGeneral)

SpecReserved == InitChat /\ [][ReservedNext]_vars

\* checkTrigger on its own: the texts are every string of at most MaxLen
\* characters of the alphabet and the texts users send, the triggers have
\* every mode with the default pattern or a pattern of their own
TriggerAlphabet == {"@", "b", "B", "x"}
TriggerTexts == UNION {[1..k -> TriggerAlphabet] : k \in 0..MaxLen} \cup Texts
CustomPattern == <<"@", "B">>
Triggers ==
  [mode : {"always", "mention", "disabled"}, mentionPattern : {<<>>, CustomPattern}]

InitTrigger ==
  /\ triggerInput \in [text : TriggerTexts, trigger : Triggers, folder : Folders]
  /\ triggerOutput = <<>>
  /\ slugInput = <<>>
  /\ slugOutput = NoSlug
  /\ routed = <<>>
  /\ registeredChats = {1, 2}
  /\ topics = {}
  /\ NoMailbox
  /\ NoTasks
  /\ NoPool
  /\ NoDispatch

\* handleTextMessage evaluates the trigger of a text
CheckTrigger ==
  /\ triggerOutput = <<>>
  /\ triggerOutput' = <<checkTrigger(triggerInput.text, triggerInput.trigger,
                                     triggerInput.folder)>>
  /\ UNCHANGED <<triggerInput, slugInput, slugOutput, routed, chatVars, ipcVars,
                 taskVars, poolVars, dispatchVars, pollVars>>

TriggerNext == CheckTrigger

SpecTrigger == InitTrigger /\ [][TriggerNext]_vars

\* slugify on its own
InitSlug ==
  /\ slugInput \in SlugInputs
  /\ slugOutput = NoSlug
  /\ routed = <<>>
  /\ NoTrigger
  /\ registeredChats = {1}
  /\ topics = {}
  /\ NoMailbox
  /\ NoTasks
  /\ NoPool
  /\ NoDispatch

SlugNext == Slugify \/ SlugifyAgain

SpecSlug == InitSlug /\ [][SlugNext]_vars


(***************************************************************************)
(* Claims about the pool                                                   *)
(***************************************************************************)
LiveWarm(f) ==
  {w \in WorkerIds : workers[w].folder = f /\ workers[w].proc = "running"
                     /\ workers[w].ready}

\* C1: for every workspace at most one warm worker process is alive.
C1_AtMostOneLiveWarmWorker ==
  \A f \in PoolFolders : Cardinality(LiveWarm(f)) <= 1

InFlight(w) == {c \in CallIds : calls[c].pc = "warm" /\ calls[c].worker = w}

\* C2: on a warm worker at most one request is in flight; a job is written
\* only while processing is false, and processing is true exactly from the
\* write until the request resolves.
C2_OneRequestInFlight ==
  /\ [](\A w \in WorkerIds :
          /\ Cardinality(InFlight(w)) <= 1
          /\ workers[w].processing <=> InFlight(w) /= {}
          /\ InFlight(w) /= {} => workers[w].resolveMessage \in InFlight(w))
  /\ [][\A c \in CallIds :
          (calls[c].pc /= "warm" /\ calls'[c].pc = "warm")
            => /\ ~workers[calls'[c].worker].processing
               /\ workers'[calls'[c].worker].processing]_vars

\* C2 witness: a warm worker that has served one request is busy with the next
C2_Witness ==
  \E w \in WorkerIds, c \in CallIds :
    /\ InFlight(w) = {c}
    /\ workers[w].processing
    /\ \E d \in CallIds : d /= c /\ calls[d].pc = "cold" /\ calls[d].folder = workers[w].folder

(***************************************************************************)
(* Claims about the mailbox: messages, reactions, registry, service        *)
(***************************************************************************)
\* this step hands one more item of this kind to the chat platform
Delivered(kind) ==
  /\ Len(sent') = Len(sent) + 1
  /\ sent'[Len(sent')].kind = kind

\* the workspace may address the chat: it is main, or the chat is registered
\* and one of its topics is bound to the workspace
MayAddress(folder, chatId) ==
  isMainFolder(folder) \/ (isChatRegistered(chatId) /\ OwnsChat(folder, chatId))

\* C3: a message action of a non-main workspace whose chat is not a registered
\* chat owned by that workspace is never sent: every step that sends a
\* message processes a file of main or of the owner of a registered chat.
C3_ForeignMessageNeverSent ==
  [][Delivered("message")
       => /\ sent'[Len(sent')].chatId = ipcData'.data.chatId
          /\ MayAddress(ipcData'.sourceFolder, ipcData'.data.chatId)]_vars

\* C3 witness: the file processed last is a message of family-chat to the
\* registered chat 1, which family-chat does not own, and nothing was sent
C3_Witness ==
  /\ ipcData.sourceFolder = "family-chat"
  /\ ipcData.data.type = "message"
  /\ ipcData.data.text /= ""
  /\ ipcData.data.chatId = 1
  /\ isChatRegistered(1)
  /\ ~OwnsChat("family-chat", 1)
  /\ sent = <<>>

\* C4 as stated: a message action with a text is sent, with the assistant
\* prefix, when its source is main or owns the registered chat it names.
C4_OwnChatMessageSent ==
  [][(/\ ipcData' /= ipcData
      /\ ipcData'.data.type = "message"
      /\ ipcData'.data.text /= ""
      /\ MayAddress(ipcData'.sourceFolder, ipcData'.data.chatId))
       => /\ Delivered("message")
          /\ sent'[Len(sent')] =
               [kind |-> "message", chatId |-> ipcData'.data.chatId,
                text |-> ASSISTANT_NAME \o ": " \o ipcData'.data.text]]_vars

\* C5 as stated: a reaction action is under the same authorization as a
\* message action: every step that delivers a reaction processes a file of
\* main or of the owner of a registered chat.
C5_ForeignReactionNeverDelivered ==
  [][Delivered("reaction")
       => /\ sent'[Len(sent')].chatId = ipcData'.data.chatId
          /\ MayAddress(ipcData'.sourceFolder, ipcData'.data.chatId)]_vars

\* C8: register_chat and service_control of a non-main workspace are never
\* applied: a step that enlarges the registry or schedules an exit processes
\* a file of main, and a step that processes such a file of a non-main
\* workspace leaves registry, exit timers and the process as they are.
C8_AdminActionsMainOnly ==
  [][/\ (registeredChats' /= registeredChats \/ ~(exitTimers' \subseteq exitTimers))
          => isMainFolder(ipcData'.sourceFolder)
     /\ (/\ ipcData' /= ipcData
         /\ ipcData'.data.type \in {"register_chat", "service_control"}
         /\ ~isMainFolder(ipcData'.sourceFolder))
          => UNCHANGED <<registeredChats, exitTimers, exited>>]_vars

\* C8 witness: the file processed last is a register_chat of family-chat for
\* a chat that is still not registered, and no exit is scheduled
C8_Witness ==
  /\ ipcData.sourceFolder = "family-chat"
  /\ ipcData.data.type = "register_chat"
  /\ ~isChatRegistered(ipcData.data.chatId)
  /\ exitTimers = {}
  /\ ~exited

(***************************************************************************)
(* Claims about task files and the scheduler                               *)
(***************************************************************************)
\* this step pauses, resumes or cancels the task: the row is deleted, or its
\* status becomes paused or active (the scheduler only ever sets completed)
TaskActed(id) ==
  /\ tasks[id] /= NoTask
  /\ \/ tasks'[id] = NoTask
     \/ /\ tasks'[id].status /= tasks[id].status
        /\ tasks'[id].status \in {"paused", "active"}

\* C6: a pause, resume or cancel changes a task only if its source is main
\* or the task's own workspace.
C6_TaskActionsOwnerOrMain ==
  [][\A id \in TaskIds :
       TaskActed(id)
         => /\ ipcData'.data.type \in {"pause_task", "resume_task", "cancel_task"}
            /\ ipcData'.data.taskId = id
            /\ \/ isMainFolder(ipcData'.sourceFolder)
               \/ tasks[id].folder = ipcData'.sourceFolder]_vars

\* C6 witness: the file processed last is a pause or cancel of family-chat
\* for a task of main, and the task is there and active
C6_Witness ==
  /\ ipcData.sourceFolder = "family-chat"
  /\ ipcData.data.type \in {"pause_task", "cancel_task"}
  /\ tasks[ipcData.data.taskId] /= NoTask
  /\ tasks[ipcData.data.taskId].folder = "main"
  /\ tasks[ipcData.data.taskId].status = "active"

\* this step processes a well-formed schedule_task of a non-main workspace
\* that names another workspace
CrossFolderSchedule ==
  /\ ipcData' /= ipcData
  /\ ipcData'.data.type = "schedule_task"
  /\ ~isMainFolder(ipcData'.sourceFolder)
  /\ ipcData'.data.folder /= ipcData'.sourceFolder

\* C7 as stated: a schedule_task of a non-main workspace W that names another
\* workspace creates a task whose folder is W.
C7_FolderForcedToSource ==
  [][(/\ CrossFolderSchedule
      /\ ScheduleValid(ipcData'.data.scheduleType, ipcData'.data.scheduleValue)
      /\ nextTaskId <= MaxTasks)
       => \E id \in TaskIds :
            /\ tasks[id] = NoTask
            /\ tasks'[id] /= NoTask
            /\ tasks'[id].folder = ipcData'.sourceFolder]_vars

\* C7 amended: a schedule_task of a non-main workspace that names another
\* workspace is rejected, no task is created; every task that is created
\* has the folder its file names, and that file comes from main or from
\* the folder itself.
C7_CrossFolderScheduleBlocked ==
  [][/\ CrossFolderSchedule => UNCHANGED <<tasks, nextTaskId>>
     /\ \A id \in TaskIds :
          (tasks[id] = NoTask /\ tasks'[id] /= NoTask)
            => /\ tasks'[id].folder = ipcData'.data.folder
               /\ \/ isMainFolder(ipcData'.sourceFolder)
                  \/ tasks'[id].folder = ipcData'.sourceFolder]_vars

\* C7 witness: the file processed last is a valid schedule_task of
\* family-chat naming main, and the task store is still empty
C7_Witness ==
  /\ ipcData.sourceFolder = "family-chat"
  /\ ipcData.data.type = "schedule_task"
  /\ ipcData.data.folder = "main"
  /\ ScheduleValid(ipcData.data.scheduleType, ipcData.data.scheduleValue)
  /\ nextTaskId = 1
  /\ \A id \in TaskIds : tasks[id] = NoTask

\* this step writes a run of the task to the log
RunLogged(id) == \E l \in taskRunLogs' \ taskRunLogs : l.taskId = id

\* this step hands the task to a container
RunStarted(id) ==
  /\ schedPc' = "running"
  /\ curTask'.id = id
  /\ <<schedPc, curTask>> /= <<schedPc', curTask'>>

\* C9 as stated: a once-task is completed with next_run null after its run,
\* whatever the outcome: success, error, or chat not registered.
C9_OnceCompletedAfterRun ==
  [][\A id \in TaskIds :
       (/\ RunLogged(id)
        /\ tasks'[id] /= NoTask
        /\ tasks'[id].scheduleType = "once")
         => /\ tasks'[id].status = "completed"
            /\ tasks'[id].nextRun = Null]_vars

\* C10: a once-task whose next_run is null is never run again, also when a
\* resume_task has set its status back to active: no step starts or logs a
\* run of it, and its next_run stays null.
C10_CompletedOnceNeverRuns ==
  [][\A id \in TaskIds :
       (/\ tasks[id] /= NoTask
        /\ tasks[id].scheduleType = "once"
        /\ tasks[id].nextRun = Null)
         => /\ ~RunStarted(id)
            /\ ~RunLogged(id)
            /\ tasks'[id] /= NoTask => tasks'[id].nextRun = Null]_vars

\* C10 witness: a once-task that ran and completed was resumed: it is active
\* with next_run null, and the clock has advanced since
C10_Witness ==
  \E id \in TaskIds :
    /\ tasks[id] /= NoTask
    /\ tasks[id].scheduleType = "once"
    /\ tasks[id].status = "active"
    /\ tasks[id].nextRun = Null
    /\ tasks[id].lastResult /= ""
    /\ ipcData.data.type = "resume_task"
    /\ now > 0
    /\ schedPc = "idle"

\* C11: in every state of the task store a cron or interval task with
\* status active has a next_run, and a task with status completed has none.
C11_StatusNextRunInvariant ==
  \A id \in TaskIds :
    tasks[id] /= NoTask
      => /\ (tasks[id].scheduleType \in {"cron", "interval"} /\ tasks[id].status = "active")
              => tasks[id].nextRun /= Null
         /\ tasks[id].status = "completed" => tasks[id].nextRun = Null

\* C11 witness: a cron or interval task that has run is
\* active after a resume_task, with a next_run
C11_Witness ==
  /\ ipcData.data.type = "resume_task"
  /\ tasks[ipcData.data.taskId] /= NoTask
  /\ tasks[ipcData.data.taskId].scheduleType \in {"cron", "interval"}
  /\ tasks[ipcData.data.taskId].status = "active"
  /\ tasks[ipcData.data.taskId].lastResult /= ""
  /\ tasks[ipcData.data.taskId].nextRun /= Null

\* this step is the end of a run of the task: runTask resumes after the
\* container call, logs the run and updates the row
RunEnded(id) ==
  /\ schedPc = "running"
  /\ curTask.id = id
  /\ <<schedPc, curTask>> /= <<schedPc', curTask'>>
  /\ tasks[id] /= NoTask
  /\ tasks'[id] /= tasks[id]

FiredRows(c) ==
  {r \in messages :
     /\ r.chatId = c /\ r.topicId = 0 /\ r.type = "text"
     /\ checkTrigger(r.content, defaultTrigger(c), FolderOf(topics, c))}

\* the flushes of a chat: the invocations of the dispatch handler for texts
Flushes(c) ==
  {d \in DOMAIN dispatches : dispatches[d].kind = "text" /\ dispatches[d].chatId = c}

\* the places of a message in the batch of a flush
Places(d, messageId) ==
  {i \in DOMAIN dispatches[d].batch : dispatches[d].batch[i] = messageId}

InFlush(d, messageId) == Places(d, messageId) /= {}

\* two of the fired messages of a chat with none of them in between
Consecutive(fired, r1, r2) ==
  /\ r1 \in fired /\ r2 \in fired
  /\ r1.id[2] < r2.id[2]
  /\ ~\E r \in fired : r1.id[2] < r.id[2] /\ r.id[2] < r2.id[2]

\* C13: of two consecutive firing messages of one (chat, topic), the second
\* arriving less than the debounce window after the first is in every flush
\* the first is in and in no other; the second arriving more than the window
\* after the first finds the first already flushed, in a flush of its own;
\* and every fired message is either still buffered or in exactly one flush,
\* exactly once.
C13_DebounceOneFlushPerBurst ==
  \A c \in Chats :
    LET fired == FiredRows(c)
        flushes == Flushes(c)
    IN /\ \A r1, r2 \in fired :
            Consecutive(fired, r1, r2) =>
              /\ r2.timestamp - r1.timestamp < DebounceTicks
                   => \A d \in flushes : InFlush(d, r1.id[2]) <=> InFlush(d, r2.id[2])
              /\ r2.timestamp - r1.timestamp > DebounceTicks
                   => \E d \in flushes : InFlush(d, r1.id[2]) /\ ~InFlush(d, r2.id[2])
       /\ \A r \in fired :
            LET buffered == {i \in DOMAIN messageBuffers[c] :
                               messageBuffers[c][i].messageId = r.id[2]}
                flushed == {<<d, i>> \in flushes \X (1..MaxMsgs) : i \in Places(d, r.id[2])}
            IN Cardinality(buffered) + Cardinality(flushed) = 1

\* C13 witness: two messages that arrived within the window went out in one flush
C13_Witness ==
  \E c \in Chats, d \in DOMAIN dispatches :
    /\ d \in Flushes(c)
    /\ Len(dispatches[d].batch) = 2
    /\ \E r1, r2 \in FiredRows(c) :
         /\ Consecutive(FiredRows(c), r1, r2)
         /\ r2.timestamp - r1.timestamp < DebounceTicks
         /\ r2.timestamp > r1.timestamp
         /\ InFlush(d, r1.id[2]) /\ InFlush(d, r2.id[2])

\* C14: once the supervisor has exited on a signal no message is left in a
\* debounce buffer: every buffered batch went to the dispatch handler first.
C14_ShutdownFlushesBuffers ==
  exited => \A k \in Chats : messageBuffers[k] = <<>>

\* a step that invokes the dispatch handler for a text flush and gets as far
\* as the worker: the new invocation
TextDispatched(d) ==
  /\ Len(dispatches') = Len(dispatches) + 1
  /\ d = Len(dispatches')
  /\ dispatches'[d].kind = "text"
  /\ dispatches'[d].status = "running"

\* content that starts with the assistant name and a colon
PrefixedByAssistant(content) == MatchesAt(content, 1, AssistantName \o <<":">>)

\* the stored messages a prompt for a workspace is to hold, at call time
MissedMessages(chatId, folder) ==
  {r \in messages :
     /\ r.chatId = chatId /\ r.topicId = 0 /\ r.type = "text"
     /\ r.timestamp > lastAgentTimestamp[folder]
     /\ ~PrefixedByAssistant(r.content)}

\* C15: the prompt of every text dispatch for a workspace holds exactly the
\* stored text messages of its (chat, topic) that are newer than the
\* workspace's last agent timestamp at call time and do not start with the
\* assistant name, each once and in timestamp order.
C15_PromptHoldsMissedMessages ==
  [][\A d \in 1..MaxMsgs :
       TextDispatched(d) =>
         LET prompt == dispatches'[d].prompt
             missed == MissedMessages(dispatches'[d].chatId, dispatches'[d].folder)
         IN /\ {prompt[i].id : i \in DOMAIN prompt} = {r.id : r \in missed}
            /\ Len(prompt) = Cardinality(missed)
            /\ \A i, j \in DOMAIN prompt :
                 i < j => prompt[i].timestamp <= prompt[j].timestamp]_vars

\* the stored row a line of a prompt was built from
RowOf(chatId, line) ==
  CHOOSE r \in messages : r.chatId = chatId /\ r.topicId = 0 /\ r.id = line.id

\* a stored text that fired in mention mode
FiredInMentionMode(r) ==
  /\ r \in FiredRows(r.chatId)
  /\ defaultTrigger(r.chatId).mode = "mention"

\* C16: a message that fired in mention mode appears in the prompt delivered
\* to the worker with every occurrence of the mention pattern, in any case,
\* stripped from its content.
C16_PromptCarriesStrippedContent ==
  \A d \in DOMAIN dispatches :
    dispatches[d].kind = "text" =>
      \A i \in DOMAIN dispatches[d].prompt :
        LET line == dispatches[d].prompt[i]
            r == RowOf(dispatches[d].chatId, line)
        IN FiredInMentionMode(r) =>
             /\ ~includes(toLowerCase(line.content), toLowerCase(MentionPattern))
             /\ line.content = escapeXml(stripTrigger(r.content, defaultTrigger(r.chatId)))

\* what the supervisor keeps about chats: registry, router, store, debouncer,
\* dispatch handler invocations and calls to the platform
chatState ==
  <<registeredChats, topics, sent, messages, messageBuffers, debounceTimers,
    dispatches, lastAgentTimestamp>>

\* C20: a text or a reaction from a chat that is not registered changes
\* nothing: no row is stored, no topic or folder is created, nothing is
\* buffered, no timer is armed and the dispatch handler is not invoked; and
\* a flush for a chat that left the registry after its messages were
\* buffered ends in the dispatch handler without a worker being invoked.
C20_UnregisteredChatIgnored ==
  [][\A c \in Chats :
       c \notin registeredChats =>
         /\ (\/ TextMessage(c, TextMention)
             \/ \E a \in {"added", "removed"}, m \in 1..MaxMsgs : ReactionUpdate(c, a, m))
              => UNCHANGED chatState
         /\ FlushMessageBuffer(c) =>
              /\ dispatches'[Len(dispatches')].status = "dropped"
              /\ \A d \in DOMAIN dispatches : dispatches'[d] = dispatches[d]
              /\ UNCHANGED <<registeredChats, topics, sent, messages, lastAgentTimestamp>>]_vars

\* C20 witness: a chat left the registry with a message in its buffer, a
\* later text of the chat was ignored, and the flush was dropped
C20_Witness ==
  \E c \in Chats, d \in DOMAIN dispatches :
    /\ c \notin registeredChats
    /\ dispatches[d].chatId = c
    /\ dispatches[d].status = "dropped"
    /\ Len(dispatches[d].batch) = 1
    /\ nextMessageId - 1 > Cardinality({r \in messages : r.type = "text"})

(***************************************************************************)
(* Claims about the session router and slugify                             *)
(***************************************************************************)
\* the router calls made for a (chat, topic) pair
CallsFor(chatId, topicId) ==
  {i \in DOMAIN routed : routed[i].chatId = chatId /\ routed[i].topicId = topicId}

\* C17: the router is a bijection between the (chat, topic) pairs it has seen
\* and folders: no two pairs have one folder, looking a returned folder up
\* gives the pair it was returned for, and every call for a pair returns the
\* folder of the pair's first call.
C17_RouterBijection ==
  /\ \A r1, r2 \in topics : r1.folder = r2.folder => r1 = r2
  /\ \A i \in DOMAIN routed :
       /\ getTopicByFolder(routed[i].folder) = {routed[i]}
       /\ getTopic(routed[i].chatId, routed[i].topicId) = {routed[i]}
  /\ \A i, j \in DOMAIN routed :
       (routed[i].chatId = routed[j].chatId /\ routed[i].topicId = routed[j].topicId)
         => routed[i].folder = routed[j].folder

\* C17 witness: two pairs whose titles give one slug have different folders,
\* and one of them was looked up twice
C17_Witness ==
  \E r1, r2 \in topics :
    /\ r1 /= r2
    /\ r1.folder = slugify(TitleDev)
    /\ r2.folder = slugify(TitleDev) \o <<"-", "1">>
    /\ Cardinality(CallsFor(r2.chatId, r2.topicId)) = 2

\* C18: every folder the router has assigned has at most 50 characters.
C18_FolderAtMostFiftyChars ==
  \A r \in topics : Len(r.folder) <= SLUG_LENGTH

\* the characters a slug may have
SlugChars == Range(LowerCase) \cup Range(Digits) \cup {"-"}

\* C19: what slugify returns is left alone by slugify, and has only
\* characters of a-z, 0-9 and the hyphen.
C19_SlugifyIdempotent ==
  slugOutput /= NoSlug =>
    /\ slugify(slugOutput) = slugOutput
    /\ Range(slugOutput) \subseteq SlugChars

(***************************************************************************)
(* Claims about the trigger                                                *)
(***************************************************************************)
\* two characters that are the same letter in either case
SameLetter(a, b) == a = b \/ Lower(a) = b \/ a = Lower(b)

\* the pattern occurs in the text, case aside
OccursIgnoringCase(text, pattern) ==
  \E i \in 1..(Len(text) + 1) :
    /\ i + Len(pattern) - 1 <= Len(text)
    /\ \A j \in 1..Len(pattern) : SameLetter(text[i + j - 1], pattern[j])

\* the pattern of a trigger as the registry describes it
MentionPatternOf(trigger) ==
  IF trigger.mentionPattern = <<>> THEN <<"@">> \o AssistantName
  ELSE trigger.mentionPattern

\* C21: the trigger fires always in main; elsewhere it fires for mode always,
\* never for mode disabled, and for mode mention exactly when the mention
\* pattern (default @<assistant name>) occurs in the text, case aside.
C21_TriggerEvaluation ==
  triggerOutput /= <<>> =>
    LET T == triggerInput.text
        trigger == triggerInput.trigger
        fires == triggerOutput[1]
    IN IF triggerInput.folder = MAIN_FOLDER THEN fires
       ELSE /\ trigger.mode = "always" => fires
            /\ trigger.mode = "disabled" => ~fires
            /\ trigger.mode = "mention"
                 => (fires <=> OccursIgnoringCase(T, MentionPatternOf(trigger)))

\* C21 witness: in a workspace other than main a text that has the pattern
\* in another case fired in mention mode
C21_Witness ==
  /\ triggerOutput = <<TRUE>>
  /\ triggerInput.folder /= MAIN_FOLDER
  /\ triggerInput.trigger.mode = "mention"
  /\ ~includes(triggerInput.text, MentionPatternOf(triggerInput.trigger))


(***************************************************************************)
(* Claims about the pool: deadlines, protocol errors, cold runs, reuse     *)
(***************************************************************************)
\* this step is a call of runContainer
Arrives(c) == calls[c].pc = "free" /\ calls'[c].pc /= "free"

\* this step gives the request of a call of runContainer to the pool entry
Reuses(c) == calls[c].pc = "free" /\ calls'[c].pc = "warm"

\* this step resolves the warm request c with the error of this kind
ResolvesWith(c, err) ==
  /\ calls[c].pc = "warm"
  /\ calls'[c].pc = "done"
  /\ calls'[c].error = err

\* a worker becomes a pool entry only as the fresh worker of a spawn: one
\* that was in the pool before never enters it again
EntersPoolFresh ==
  \A f \in PoolFolders :
    (containers'[f] /= containers[f] /\ containers'[f] /= NoWorker)
      => ~workers[containers'[f]].onClose

\* C22: when the deadline of a warm request runs out the worker is sent
\* SIGTERM, the pool entry of the workspace is removed and the call resolves
\* with status error, once: a resolved call stays as it is until its caller
\* takes it; a request goes to the pool entry only, no pool entry is a
\* signalled worker, and a worker that was in the pool never enters it again.
C22_WarmDeadlineKillsAndResolves ==
  /\ [][/\ \A c \in CallIds :
            ResolvesWith(c, "timeout") =>
              LET w == calls[c].worker
              IN /\ workers[w].onClose
                 /\ workers[w].proc = "running" => workers'[w].proc = "killed"
                 /\ workers'[w].proc /= "running"
                 /\ containers'[calls[c].folder] = NoWorker
                 /\ calls'[c].output = "error"
                 /\ ~workers'[w].processing /\ workers'[w].resolveMessage = NoCall
        /\ \A c \in CallIds :
             calls[c].pc = "done" => calls'[c] \in {calls[c], FreeCall}
        /\ \A c \in CallIds :
             Reuses(c) => /\ containers[calls'[c].folder] = calls'[c].worker
                          /\ workers[calls'[c].worker].proc /= "killed"
        /\ EntersPoolFresh]_vars
  /\ [](\A f \in PoolFolders :
          containers[f] /= NoWorker => workers[containers[f]].proc /= "killed")

\* C22 witness: a request ran into its deadline, its worker is signalled, and
\* the next request of the workspace is in flight on another worker
C22_Witness ==
  \E c, d \in CallIds :
    /\ calls[c].pc = "done" /\ calls[c].error = "timeout" /\ calls[c].output = "error"
    /\ workers[calls[c].worker].proc = "killed"
    /\ calls[d].pc = "warm" /\ calls[d].folder = calls[c].folder
    /\ calls[d].worker /= calls[c].worker
    /\ containers[calls[d].folder] = calls[d].worker

\* C23: when a warm worker writes unparseable JSON between the markers the
\* call resolves with status error and the worker leaves the pool, and no
\* later request is given to it.
C23_ProtocolViolationRemovesWorker ==
  [][/\ \A c \in CallIds :
          ResolvesWith(c, "parse") =>
            /\ calls'[c].output = "error"
            /\ containers'[calls[c].folder] /= calls[c].worker
     /\ \A c, d \in CallIds :
          (Reuses(c) /\ calls[d].pc = "done" /\ calls[d].error = "parse")
            => calls'[c].worker /= calls[d].worker]_vars

\* C27: a request that arrives while the warm worker of its workspace is busy
\* runs cold and leaves workers and pool alone; no request is ever written to
\* a worker that is processing; with the warm pool disabled every request
\* runs cold, no worker is spawned and the pool stays empty.
C27_BusyOrDisabledRunsCold ==
  /\ [][\A c \in CallIds :
          /\ Arrives(c) =>
               LET existing == containers[calls'[c].folder]
               IN /\ (/\ warmTimeout > 0
                      /\ existing /= NoWorker
                      /\ workers[existing].processing)
                       => /\ calls'[c].pc = "cold"
                          /\ calls'[c].worker = NoWorker
                          /\ UNCHANGED <<workers, containers, nextWorker>>
                  /\ warmTimeout <= 0
                       => /\ calls'[c].pc = "cold"
                          /\ calls'[c].worker = NoWorker
                          /\ UNCHANGED <<workers, containers, nextWorker>>
          /\ (calls[c].pc /= "warm" /\ calls'[c].pc = "warm")
               => ~workers[calls'[c].worker].processing]_vars
  /\ [](warmTimeout <= 0
          => /\ \A f \in PoolFolders : containers[f] = NoWorker
             /\ nextWorker = 1
             /\ \A c \in CallIds : calls[c].pc \in {"free", "cold", "done"})

\* C27 witness: the only worker of the workspace is busy with one request
\* while a second request of the workspace runs cold
C27_Witness ==
  \E c, d \in CallIds :
    /\ warmTimeout > 0
    /\ nextWorker = 2
    /\ calls[c].pc = "warm" /\ containers[calls[c].folder] = calls[c].worker
    /\ workers[calls[c].worker].processing
    /\ calls[d].pc = "cold" /\ calls[d].folder = calls[c].folder
    /\ calls[d].worker = NoWorker

\* a worker that has served a request and has since neither run into a
\* deadline, nor exited, nor been reaped: it was put into the pool, its
\* request is resolved, and its process runs unsignalled
Served(w) ==
  /\ workers[w].proc = "running"
  /\ workers[w].onClose
  /\ ~workers[w].processing

\* C28: requests coming one at a time, a worker that has served a request on
\* a workspace and has since neither timed out, exited nor been reaped gets
\* the next request of the workspace, no container is spawned for it, and
\* the pool reports this one warm container.
C28_WarmReuse ==
  /\ [][\A c \in CallIds, w \in WorkerIds :
          (Arrives(c) /\ Served(w) /\ calls'[c].folder = workers[w].folder)
            => /\ calls'[c].pc = "warm"
               /\ calls'[c].worker = w
               /\ nextWorker' = nextWorker]_vars
  /\ [](\A w \in WorkerIds :
          Served(w) => /\ containers[workers[w].folder] = w
                       /\ getStats.warmContainers = 1)

\* this step is the exit of a worker that is a pool entry
PoolEntryExits(w) ==
  /\ workers[w].proc /= "exited"
  /\ workers'[w].proc = "exited"
  /\ containers[workers[w].folder] = w

\* C30: when a worker that is a pool entry exits, the request in flight on
\* it resolves with status error and the pool entry is removed; a request
\* goes to the pool entry only and a worker that was in the pool never
\* enters it again, so the next request of the workspace finds no entry.
C30_UnexpectedExitResolvesAndRemoves ==
  [][/\ \A w \in WorkerIds :
          PoolEntryExits(w) =>
            /\ containers'[workers[w].folder] = NoWorker
            /\ ~workers'[w].processing /\ workers'[w].resolveMessage = NoCall
            /\ \A c \in CallIds :
                 (calls[c].pc = "warm" /\ calls[c].worker = w)
                   => /\ calls'[c].pc = "done"
                      /\ calls'[c].output = "error"
                      /\ calls'[c].error = "exit"
     /\ \A c \in CallIds : Reuses(c) => containers[calls'[c].folder] = calls'[c].worker
     /\ \A c \in CallIds :
          (Arrives(c) /\ warmTimeout > 0 /\ containers[calls'[c].folder] = NoWorker)
            => /\ calls'[c].pc = "spawning"
               /\ calls'[c].worker = nextWorker
               /\ workers[nextWorker].proc = "none"
     /\ EntersPoolFresh]_vars

\* C30 witness: a worker exited with a request in flight, the request has
\* resolved with the exit error, and the next request of the workspace has
\* spawned a new worker
C30_Witness ==
  \E c, d \in CallIds :
    /\ calls[c].pc = "done" /\ calls[c].error = "exit" /\ calls[c].output = "error"
    /\ workers[calls[c].worker].proc = "exited"
    /\ calls[d].pc = "spawning" /\ calls[d].folder = calls[c].folder
    /\ calls[d].worker /= calls[c].worker
    /\ containers[calls[c].folder] = NoWorker


(***************************************************************************)
(* Claims about replies                                                    *)
(***************************************************************************)
\* a container output with status success and a result that is not empty
SuccessfulNonEmpty(output) ==
  /\ output.status = "success"
  /\ output.result \notin {<<>>, <<<<>>>>}

\* this step stores a message of the bot
BotMessageStored == \E r \in messages' \ messages : r.isBot

\* C24: when the worker call of a dispatch for workspace F returns a
\* successful, non-empty result, lastAgentTimestamp[F] becomes the present
\* time and the reply goes out; when it returns an error, an empty result or
\* fails, lastAgentTimestamp is unchanged and the dispatch ends with nothing
\* sent; lastAgentTimestamp changes in no other step, a failing send
\* included; and a reply is sent only by a dispatch that is replying.
C24_LastAgentTimestampOnSuccess ==
  [][/\ \A d \in 1..MaxMsgs, output \in ContainerOutputs :
          RunAgentReturns(d, output) =>
            IF SuccessfulNonEmpty(output)
            THEN /\ lastAgentTimestamp'[dispatches[d].folder] = now
                 /\ \A f \in Folders \ {dispatches[d].folder} :
                      lastAgentTimestamp'[f] = lastAgentTimestamp[f]
                 /\ dispatches'[d].status = "replying"
            ELSE /\ UNCHANGED <<lastAgentTimestamp, messages, sent>>
                 /\ dispatches'[d].status = "done"
     /\ lastAgentTimestamp' /= lastAgentTimestamp
          => \E d \in DOMAIN dispatches :
               /\ dispatches[d].status = "running"
               /\ dispatches'[d].status = "replying"
     /\ \A d \in 1..MaxMsgs :
          ReplyFailed(d) => /\ UNCHANGED <<lastAgentTimestamp, messages>>
                            /\ lastAgentTimestamp[dispatches[d].folder] /= Null
     /\ BotMessageStored
          => \E d \in DOMAIN dispatches :
               /\ dispatches[d].status = "replying"
               /\ dispatches'[d].status = "done"]_vars

\* C24 witness: one dispatch of a workspace ended without a reply and left
\* the time of the last reply alone, a later one got a result, and the
\* platform refused the reply after the time was recorded
C24_Witness ==
  \E d, e \in DOMAIN dispatches :
    /\ dispatches[d].status = "done"
    /\ dispatches[e].status = "failed"
    /\ dispatches[d].folder = dispatches[e].folder
    /\ lastAgentTimestamp[dispatches[e].folder] /= Null
    /\ ~\E r \in messages : r.isBot


(***************************************************************************)
(* Claims about failed runs and the ticks of the scheduler                 *)
(***************************************************************************)
\* this step writes a failed run of the task to the log
FailedRunLogged(id) ==
  \E l \in taskRunLogs' \ taskRunLogs : l.taskId = id /\ l.status = "error"

\* C25: after a failed run of a task (worker error, exception, or chat not
\* registered) the error is the task's last_result and its next_run is
\* advanced or null: the task is not due any more at the instant of the run.
C25_FailedRunNotRetried ==
  [][\A id \in TaskIds :
       (FailedRunLogged(id) /\ tasks'[id] /= NoTask)
         => /\ tasks'[id].lastResult = "Error"
            /\ ~IsDue(tasks'[id], now)]_vars

\* C26: at most one run of a scheduled task is in flight; a run starts only
\* when no other is in flight, and the scheduler fetches a due list only
\* when none is in flight and the list before is worked off.
C26_OneScheduledRunInFlight ==
  /\ [](Len(inFlight) <= 1)
  /\ [][/\ \A id \in TaskIds : RunStarted(id) => inFlight' = <<id>>
        /\ (schedPc = "idle" /\ schedPc' = "running")
             => inFlight = <<>> /\ dueTasks = <<>>]_vars

\* C26 witness: in one tick a first task has run and a second is in flight
C26_Witness ==
  \E a, b \in TaskIds :
    /\ a /= b
    /\ now = 0
    /\ tasks[a] /= NoTask /\ tasks[a].lastResult /= ""
    /\ schedPc = "running" /\ curTask.id = b
    /\ inFlight = <<b>>

\* C29: a run starts only for a task whose row, read at that moment, exists
\* and is active: a task of the due list that was paused or cancelled while
\* an earlier task of the tick was running is skipped.
C29_PausedOrCancelledSkipped ==
  [][\A id \in TaskIds :
       /\ RunStarted(id) => tasks'[id] /= NoTask /\ tasks'[id].status = "active"
       /\ (/\ schedPc = "running"
           /\ \E i \in DOMAIN dueTasks : dueTasks[i] = id
           /\ tasks[id] = NoTask \/ tasks[id].status /= "active"
           /\ <<schedPc, curTask, dueTasks>> /= <<schedPc', curTask', dueTasks'>>
           /\ tasks'[id] = tasks[id])
            => /\ ~RunStarted(id)
               /\ ~RunLogged(id)]_vars

\* C29 witness: while a task of the tick is running, a task further down the
\* due list has been paused or cancelled
C29_Witness ==
  \E id \in TaskIds :
    /\ schedPc = "running"
    /\ \E i \in DOMAIN dueTasks : dueTasks[i] = id
    /\ tasks[id] = NoTask \/ tasks[id].status = "paused"

(***************************************************************************)
(* Claims about idle reaping                                               *)
(***************************************************************************)
\* a step of the cleanup interval: pool entries go while no call changes, no
\* process exits and the clock stands
ReaperStep ==
  /\ containers' /= containers
  /\ calls' = calls
  /\ now' = now
  /\ \A w \in WorkerIds : workers'[w].proc = "exited" => workers[w].proc = "exited"

\* the pool entry w is older than the idle timeout
OlderThanIdleTimeout(w) == now * CLEANUP_INTERVAL_MS - workers[w].lastActive > warmTimeout

\* C31: a step of the idle reaper removes a pool entry, signalling its worker,
\* exactly when no request is in flight on the worker and its lastActive is
\* older than the idle timeout, and it leaves every other entry and worker as
\* they are; lastActive is set to the current time when a request is written
\* to a worker and when that request resolves.
C31_ReaperSparesBusyWorkers ==
  /\ [][ReaperStep =>
         \A f \in PoolFolders :
           LET w == containers[f] IN
           w /= NoWorker =>
             IF InFlight(w) = {} /\ OlderThanIdleTimeout(w)
             THEN /\ containers'[f] = NoWorker
                  /\ workers'[w].proc /= "running"
             ELSE /\ containers'[f] = w
                  /\ workers'[w] = workers[w]]_vars
  /\ [][\A c \in CallIds :
          /\ (calls[c].pc /= "warm" /\ calls'[c].pc = "warm")
               => workers'[calls'[c].worker].lastActive = now * CLEANUP_INTERVAL_MS
          /\ (calls[c].pc = "warm" /\ calls'[c].pc /= "warm")
               => workers'[calls[c].worker].lastActive = now * CLEANUP_INTERVAL_MS]_vars

\* C31 witness: a worker that answered a request and then sat idle has been
\* signalled and removed by the reaper, and the worker spawned after it has
\* a request in flight that is older than the idle timeout and is still in
\* the pool and running
C31_Witness ==
  \E w, v \in WorkerIds, f \in PoolFolders :
    /\ w /= v
    /\ workers[w].proc = "killed" /\ workers[w].onClose
    /\ \A c \in CallIds : calls[c].error /= "timeout"
    /\ containers[f] = v
    /\ workers[v].proc = "running"
    /\ InFlight(v) /= {}
    /\ OlderThanIdleTimeout(v)

(***************************************************************************)
(* Claims about the readiness wait                                         *)
(***************************************************************************)
\* C32: when the wait for the first readiness marker of a spawned worker
\* ends without the marker, the worker is signalled, the pool is left as it
\* was and the request goes on in a cold container; a worker that has not
\* printed the marker is in no pool entry.
C32_NotReadyKilledThenCold ==
  /\ [](\A w \in WorkerIds, f \in PoolFolders :
          containers[f] = w => workers[w].ready)
  /\ [][\A c \in CallIds :
          (/\ calls[c].pc = "spawning"
           /\ calls'[c].pc /= "spawning"
           /\ ~workers[calls[c].worker].ready)
            => /\ workers'[calls[c].worker].proc /= "running"
               /\ containers' = containers
               /\ calls'[c].pc = "cold"
               /\ calls'[c].folder = calls[c].folder]_vars

\* C32 witness: the only worker spawned so far never printed the marker,
\* was signalled and is not in the pool, and the request it was spawned for
\* has been answered by a cold container
C32_Witness ==
  \E c \in CallIds :
    /\ warmTimeout > 0
    /\ nextWorker = 2
    /\ workers[1].proc = "killed" /\ ~workers[1].ready
    /\ workers[1].folder = calls[c].folder
    /\ containers[calls[c].folder] = NoWorker
    /\ calls[c].pc = "done" /\ calls[c].output = "success"
    /\ calls[c].worker = NoWorker

(***************************************************************************)
(* Claims about the mailbox poll                                           *)
(***************************************************************************)
\* the file is gone from its mailbox directory
Consumed(n) == ipcFiles[n].ext \in {"unlinked", "errors"}

\* what holds of the polls at every moment: a file is read and applied at
\* most once, a file a finished poll has read is gone, a file moved to
\* errors/ or unlinked was read, no timer is pending while a poll runs, and
\* a file named .tmp is not read
PollsConsumeOnce ==
  /\ [](\A n \in FileNames :
          /\ ipcFiles[n].reads <= 1
          /\ ipcFiles[n].applied <= ipcFiles[n].reads
          /\ Consumed(n) => ipcFiles[n].reads = 1
          /\ (pollPc = "sleeping" /\ ipcFiles[n].reads > 0) => Consumed(n))
  /\ [](pollTimers + (IF pollPc = "sleeping" THEN 0 ELSE 1) = 1)
  /\ [][\A n \in FileNames :
          ipcFiles[n].ext /= ".json" => ipcFiles'[n].reads = ipcFiles[n].reads]_vars

\* C33: every mailbox file named .json is consumed by exactly one poll: it is
\* read once and applied at most once, after the poll that read it it is
\* unlinked or in errors/, a file named .tmp is not read, polls do not
\* overlap, and every .json file is consumed in the end.
C33_EveryFileConsumedOnce ==
  /\ PollsConsumeOnce
  /\ \A n \in FileNames : (ipcFiles[n].ext = ".json") ~> Consumed(n)

\* the same for the files of the workspaces other than errors
ConsumedOutsideErrors ==
  /\ PollsConsumeOnce
  /\ \A n \in FileNames :
       (ipcFiles[n].ext = ".json" /\ ipcFiles[n].folder /= "errors") ~> Consumed(n)

(***************************************************************************)
(* Claims about the exit of a superseded worker                            *)
(***************************************************************************)
\* C34: when the process of a warm worker exits, a pool entry that holds
\* another worker stays as it is.
C34_ExitRemovesOwnEntryOnly ==
  [][\A w \in WorkerIds :
       (workers[w].proc /= "exited" /\ workers'[w].proc = "exited")
         => \A f \in PoolFolders :
              (containers[f] /= NoWorker /\ containers[f] /= w)
                => containers'[f] = containers[f]]_vars

(***************************************************************************)
(* Claims about the readiness handshake between requests                   *)
(***************************************************************************)
\* C35: a job is written to a warm worker only when the worker has printed
\* the readiness marker since its start or since its previous response.
C35_JobOnlyAfterReadinessMarker ==
  [][\A w \in WorkerIds :
       (workers[w].resolveMessage = NoCall /\ workers'[w].resolveMessage /= NoCall)
         => workers[w].announced]_vars

(***************************************************************************)
(* Claims about the prompt of a flush                                      *)
(***************************************************************************)
\* the prompt of dispatch d has a <message> element for the stored text
\* messageId
InPrompt(d, messageId) ==
  \E j \in DOMAIN dispatches[d].prompt :
    dispatches[d].prompt[j].id = MessageRowId(messageId)

\* C36: the prompt of every worker invocation made for a flush of the
\* debouncer holds each message of the flushed batch, so it is not empty.
C36_PromptHoldsTriggeringMessages ==
  \A d \in DOMAIN dispatches :
    (dispatches[d].kind = "text" /\ dispatches[d].status /= "dropped")
      => \A i \in DOMAIN dispatches[d].batch : InPrompt(d, dispatches[d].batch[i])

\* the same for the flushes whose messages were all stored after the time
\* lastAgentTimestamp had when the flush ran
PromptHoldsMessagesStoredLater ==
  \A d \in DOMAIN dispatches :
    (dispatches[d].kind = "text" /\ dispatches[d].status /= "dropped")
      => \A i \in DOMAIN dispatches[d].batch :
           (\E r \in messages : /\ r.id = MessageRowId(dispatches[d].batch[i])
                                /\ r.timestamp > dispatches[d].since)
             => InPrompt(d, dispatches[d].batch[i])

\* a flush ran with lastAgentTimestamp later than the time its message was
\* stored at
StoredBeforeReply ==
  \E d \in DOMAIN dispatches :
    /\ dispatches[d].kind = "text" /\ dispatches[d].status /= "dropped"
    /\ \E i \in DOMAIN dispatches[d].batch, r \in messages :
         /\ r.id = MessageRowId(dispatches[d].batch[i])
         /\ r.timestamp < dispatches[d].since
    /\ dispatches[d].prompt = <<>>

(***************************************************************************)
(* Claims about the termination of runContainer                            *)
(***************************************************************************)
\* the call c has been made and has not resolved
Pending(c) == calls[c].pc \in {"spawning", "warm", "cold"}

\* C37: every runContainer call resolves in the end, whatever the worker
\* does, given that the timers fire.
C37_EveryCallResolves ==
  \A c \in CallIds : Pending(c) ~> (calls[c].pc = "done")

Variants(d) ==
  CASE d.type = "schedule_task" ->
         {[d EXCEPT !.createdBy = g, !.isMain = m] : g \in Folders, m \in BOOLEAN}
    [] d.type \in {"pause_task", "resume_task", "cancel_task"} ->
         {[d EXCEPT !.folder = g, !.isMain = m] : g \in Folders, m \in BOOLEAN}
    [] OTHER -> {[d EXCEPT !.isMain = m] : m \in BOOLEAN}

\* C39: two files of one workspace's mailbox that differ only in isMain, in
\* folder (pause_task, resume_task, cancel_task) or in createdBy lead to the
\* same host state: whenever a file is processed, every variant of it in the
\* same mailbox would have taken the host to the very same state
C39_PrivilegeFieldsIgnored ==
  [][ipcData' /= NoFile =>
       LET f == ipcData'.sourceFolder
           d == ipcData'.data
       IN  ProcessTaskIpc(f, d) => \A e \in Variants(d) : TaskIpcOutcome(f, e)]_vars

\* family-chat dropped a cancel_task that claims main's privilege and main's
\* folder for a task of main, and the task is still there
C39_Witness ==
  /\ ipcData.sourceFolder = "family-chat"
  /\ ipcData.data.type = "cancel_task"
  /\ ipcData.data.isMain
  /\ ipcData.data.folder = "main"
  /\ getTaskById(tasks, ipcData.data.taskId).status = "active"
  /\ getTaskById(tasks, ipcData.data.taskId).folder = "main"


\* MAIN_FOLDER and GLOBAL_FOLDER as the router spells folder names
MainName == <<"m", "a", "i", "n">>
GlobalName == <<"g", "l", "o", "b", "a", "l">>

\* C40: the session router assigns the reserved name global to no (chat,
\* topic), and the privileged name main to no conversation whose title or
\* topic name merely slugifies to it: no row of the topic table that the
\* router wrote holds either name
C40_ReservedNamesNeverAssigned ==
  \A r \in topics : r.folder \notin {GlobalName, MainName}

\* the two ways it happens: a chat titled "Global" holds the shared memory's
\* folder, a chat titled "Main" holds the admin folder
GlobalAssignedBySlug ==
  \E i \in 1..Len(routed) : routed[i].folder = GlobalName

MainAssignedBySlug ==
  \E i \in 1..Len(routed) : routed[i].folder = MainName

=============================================================================
